---- MODULE Spec2Model ----
(***************************************************************************)
(* Model of the code-retrieval backend of Senorita Voice IDE:              *)
(*   - the in-memory symbol index   (app/services/symbol_indexer.py)       *)
(*   - the file watcher / debouncer (app/services/file_watcher.py)         *)
(*   - the context window assembler (app/services/context_manager.py)      *)
(*   - the symbol embedding index   (app/services/embedding_service.py)    *)
(*   - the conversation memory      (app/services/memory_service.py)       *)
(*   - the agent orchestrator       (app/agents/orchestrator.py)           *)
(*   - the voice websocket          (app/api/websocket.py)                 *)
(*   - the smart context retrieval  (app/services/smart_context.py)        *)
(*   - the context agent's cursor lookup (app/agents/context_agent.py)     *)
(*   - the user memories and the pull-mode IncrementalIndexer              *)
(*                                                                         *)
(* The specifications that share the module:                               *)
(*   Spec       index_file / index_project / _handle_change on the index   *)
(*   WatchSpec  the debouncing CodeFileHandler with its timer threads,     *)
(*              dispatching into _handle_change, over a discrete clock     *)
(*   AsmSpec    ContextWindowManager.add_item / assemble                   *)
(*   ConcSpec   index_file on the request thread and on the watcher's      *)
(*              timer thread, interleaved with unsynchronised readers      *)
(*   EmbSpec    _handle_change with the embedding model loadable or not    *)
(*   MemSpec    MemoryService calls and a restart that reloads from disk   *)
(*   OrchSpec   orchestrate requests on the conversation memory            *)
(*   WsSpec     the frames voice_ws sends for text and agentic commands    *)
(*   HybSpec    EmbeddingService.hybrid_search on drawn result lists       *)
(*   CodingSpec assemble on a selection, a current file, a project tree    *)
(*   RelSpec    find_relevant_files on drawn registered files              *)
(*   EstSpec    estimate_tokens on a string and on the string extended     *)
(*   ChainFairSpec  get_call_chain as a stack of frames, weakly fair       *)
(*   IntentSpec     detect_intent on drawn transcripts                     *)
(*   CursorSpec     get_symbol_at_cursor on drawn symbol lists             *)
(*   StoreSpec      add / search / delete of user memories and a reload    *)
(*   CallersSpec    get_callers on an index of files that hold methods     *)
(*   OrderSpec      index_project under each walk order of the same files  *)
(*   ReindexSpec    index_file and an immediate second index_file          *)
(*   PullSpec       IncrementalIndexer.index_changed_files and file writes *)
(*   DebounceSpec   the debouncer with the events each change stands for   *)
(***************************************************************************)
EXTENDS Integers, Sequences, FiniteSets, TLC

\* ------------------------------------------------------------------------
\* Bounds of the model
\* ------------------------------------------------------------------------
\* highest line number a symbol of a modelled file can start at
MaxLine == 2
\* cap on the number of rows held by by_name (stale rows accumulate)
MaxRows == 2
\* most definitions one modelled file holds
MaxDefs == 1
\* file-system events the watcher receives in one run
MaxEvents == 3
\* granularity of the clock, in milliseconds
TickMs == 250
\* most items added to one ContextWindowManager
MaxItems == 2
\* cap on the number of items the symbol embedding index holds
MaxEmbedded == 2
\* MemoryService.max_history_length of the modelled service (a setting, 50
\* by default)
MaxHistory == 3
\* create_conversation and add_message calls in one run
MaxCalls == 5
\* most chunks the LLM streams for one request
MaxChunks == 2

\* ------------------------------------------------------------------------
\* Generic helpers
\* ------------------------------------------------------------------------
None == "None"

Range(s) == {s[i] : i \in 1..Len(s)}

\* Python list.remove(x): drops the first element equal to x
RECURSIVE ListRemove(_, _)
ListRemove(s, x) ==
    IF s = <<>> THEN <<>>
    ELSE IF Head(s) = x THEN Tail(s)
    ELSE <<Head(s)>> \o ListRemove(Tail(s), x)

\* dict with key k bound to v (insert or overwrite)
DictPut(d, k, v) == [x \in (DOMAIN d) \cup {k} |-> IF x = k THEN v ELSE d[x]]

\* del d[k]
DictDel(d, k) == [x \in (DOMAIN d) \ {k} |-> d[x]]

\* d.get(k, default)
DictGet(d, k, default) == IF k \in DOMAIN d THEN d[k] ELSE default

EmptyDict == [x \in {} |-> None]

\* ------------------------------------------------------------------------
\* Files and their extracted symbols
\* ------------------------------------------------------------------------
\* paths with a supported extension (LANG_MAP) and one without
CodePaths == {"a.py", "b.py"}
OtherPaths == {"n.txt"}
AllPaths == CodePaths \cup OtherPaths

\* get_language: None for an extension outside LANG_MAP
get_language(path) == IF path \in CodePaths THEN "python" ELSE None

Names == {"f", "g"}

\* What the language adapter extracts from one definition of a file: the
\* fields of a Symbol that do not depend on the path.  Functions at module
\* scope (parent None): f, which may call g, and g, which calls nothing.
Defs ==
    [name : {"f"}, kind : {"function"}, parent : {None}, calls : SUBSET {"g"}]
    \cup [name : {"g"}, kind : {"function"}, parent : {None}, calls : {{}}]

\* A file content, seen through the adapter: at most one definition per line,
\* in source order.  Unreadable stands for a file that is missing or that
\* open() fails on.
\* NoDef marks a line that defines nothing.
NoDef == [name |-> None, kind |-> None, parent |-> None, calls |-> {}]
Unreadable == <<>>
Contents ==
    {c \in [1..MaxLine -> Defs \cup {NoDef}] :
        Cardinality({l \in 1..MaxLine : c[l] # NoDef}) <= MaxDefs}

\* extract_python_symbols: the Symbol list of a content, in source order
RECURSIVE SymbolsFrom(_, _, _)
SymbolsFrom(path, content, l) ==
    IF l > MaxLine THEN <<>>
    ELSE (IF content[l] = NoDef THEN <<>>
          ELSE << [name |-> content[l].name, kind |-> content[l].kind,
                   file_path |-> path, line |-> l,
                   parent |-> content[l].parent, calls |-> content[l].calls] >>)
         \o SymbolsFrom(path, content, l + 1)

\* full_name = f"{parent}.{name}" if parent else name
full_name(sym) ==
    IF sym.parent = None THEN sym.name
    ELSE IF sym.name = "f" THEN "C.f" ELSE "C.g"

\* extract_python_symbols: call_map[full_name] = calls, a later definition of
\* the same full name overwriting an earlier one
RECURSIVE CallMapFrom(_, _)
CallMapFrom(syms, acc) ==
    IF syms = <<>> THEN acc
    ELSE CallMapFrom(Tail(syms), DictPut(acc, full_name(Head(syms)), Head(syms).calls))

\* FileSymbols (file_path, symbols) and the call_map of a content
extract_python_symbols(path, content) ==
    LET syms == SymbolsFrom(path, content, 1)
    IN [fs |-> [file_path |-> path, symbols |-> syms],
        call_map |-> CallMapFrom(syms, EmptyDict)]

\* ------------------------------------------------------------------------
\* SymbolIndex
\* ------------------------------------------------------------------------
\* SymbolIndex(): every map empty
SymbolIndex ==
    [by_name |-> EmptyDict, by_file |-> EmptyDict, by_kind |-> EmptyDict,
     call_graph |-> EmptyDict, reverse_call_graph |-> EmptyDict]

\* _add_to_index, the removal loop: for each old symbol of the file, drop its
\* first equal row from by_name and by_kind and delete call_graph[full_name]
RECURSIVE RemoveOld(_, _)
RemoveOld(idx, olds) ==
    IF olds = <<>> THEN idx
    ELSE LET sym == Head(olds)
             bn == IF sym \in Range(DictGet(idx.by_name, sym.name, <<>>))
                   THEN DictPut(idx.by_name, sym.name,
                                ListRemove(idx.by_name[sym.name], sym))
                   ELSE idx.by_name
             bk == IF sym \in Range(DictGet(idx.by_kind, sym.kind, <<>>))
                   THEN DictPut(idx.by_kind, sym.kind,
                                ListRemove(idx.by_kind[sym.kind], sym))
                   ELSE idx.by_kind
             cg == IF full_name(sym) \in DOMAIN idx.call_graph
                   THEN DictDel(idx.call_graph, full_name(sym))
                   ELSE idx.call_graph
         IN RemoveOld([idx EXCEPT !.by_name = bn, !.by_kind = bk,
                                  !.call_graph = cg], Tail(olds))

\* _add_to_index, the insertion loop: defaultdict(list) appends
RECURSIVE AddNew(_, _)
AddNew(idx, syms) ==
    IF syms = <<>> THEN idx
    ELSE LET sym == Head(syms)
         IN AddNew([idx EXCEPT
                !.by_name = DictPut(@, sym.name,
                                    Append(DictGet(@, sym.name, <<>>), sym)),
                !.by_kind = DictPut(@, sym.kind,
                                    Append(DictGet(@, sym.kind, <<>>), sym))],
              Tail(syms))

\* the (caller, callee) pairs of a call_map whose callee is a key of by_name
KnownEdges(call_map, by_name) ==
    {e \in (DOMAIN call_map) \X (DOMAIN by_name) : e[2] \in call_map[e[1]]}

\* one defaultdict(set) after adding every edge of es, keyed by position key
\* (1: caller -> callees, 2: callee -> callers)
AddEdges(graph, es, key) ==
    LET other == 3 - key
        ks == (DOMAIN graph) \cup {e[key] : e \in es}
    IN [k \in ks |-> DictGet(graph, k, {}) \cup {e[other] : e \in {x \in es : x[key] = k}}]

\* _add_to_index, the call-graph loop
UpdateCallGraph(idx, call_map) ==
    LET es == KnownEdges(call_map, idx.by_name)
    IN [idx EXCEPT !.call_graph = AddEdges(@, es, 1),
                   !.reverse_call_graph = AddEdges(@, es, 2)]

\* SymbolIndexer._add_to_index
_add_to_index(idx, fs, call_map) ==
    LET cleaned == IF fs.file_path \in DOMAIN idx.by_file
                   THEN RemoveOld(idx, idx.by_file[fs.file_path].symbols)
                   ELSE idx
        placed == [cleaned EXCEPT !.by_file = DictPut(@, fs.file_path, fs)]
    IN UpdateCallGraph(AddNew(placed, fs.symbols), call_map)

\* SymbolIndexer.index_file: the index after the call (unchanged when the
\* language is unsupported or the file cannot be read)
index_file(idx, path, content) ==
    IF get_language(path) = None \/ content = Unreadable THEN idx
    ELSE LET ex == extract_python_symbols(path, content)
         IN _add_to_index(idx, ex.fs, ex.call_map)

\* index_file's return value is a FileSymbols (truthy) exactly when it indexed
index_file_ok(path, content) ==
    get_language(path) # None /\ content # Unreadable

\* SymbolIndexer.index_project starts from a fresh SymbolIndex and calls
\* index_file on every supported file the walk finds, in the walk's order
WalkOrder == <<"a.py", "b.py">>

\* ------------------------------------------------------------------------
\* FileWatcherService._handle_change
\* ------------------------------------------------------------------------
\* the FileChange values the handler queues: the path passed _should_process,
\* old_path is None unless the event is a move (a move from a path that was
\* never indexed acts as a created event and is left out)
Changes ==
    [path : CodePaths, event_type : {"created", "modified", "deleted"},
     old_path : {None}]
    \cup {c \in [path : CodePaths, event_type : {"moved"}, old_path : CodePaths] :
            c.old_path # c.path}

_handle_change(idx, change, content) ==
    IF change.event_type = "deleted"
    THEN IF change.path \in DOMAIN idx.by_file
         THEN [idx EXCEPT !.by_file = DictDel(@, change.path)]
         ELSE idx
    ELSE IF change.event_type \in {"created", "modified"}
    THEN index_file(idx, change.path, content)
    ELSE \* moved
         index_file(IF change.old_path # None /\ change.old_path \in DOMAIN idx.by_file
                    THEN [idx EXCEPT !.by_file = DictDel(@, change.old_path)]
                    ELSE idx,
                    change.path, content)

\* ------------------------------------------------------------------------
\* EmbeddingService: the symbol embedding index
\* ------------------------------------------------------------------------
\* _generate_symbol_id: md5 of "file_path:line:name", here the key itself
_generate_symbol_id(sym) == <<sym.file_path, sym.line, sym.name>>

\* index_symbols: nothing for an empty list or when no model is loaded
\* (_embed_batch returns None), else add_batch puts one item per id
index_symbols(ids, symbols, loaded) ==
    IF symbols = <<>> \/ ~loaded THEN ids
    ELSE ids \cup {_generate_symbol_id(sym) : sym \in Range(symbols)}

\* _handle_change, its calls into the embedding service: index_symbols on
\* the result of index_file for a created or modified change, none for a
\* deleted or moved one
_handle_change_embeddings(ids, change, content, loaded) ==
    IF change.event_type \in {"created", "modified"}
       /\ index_file_ok(change.path, content)
    THEN index_symbols(ids, extract_python_symbols(change.path, content).fs.symbols, loaded)
    ELSE ids

\* ------------------------------------------------------------------------
\* State
\* ------------------------------------------------------------------------
VARIABLES
    index,      \* SymbolIndexer.index of the global indexer
    walk,       \* index_project: the files its walk has still to index
    lastOp      \* history: the last index operation that returned

idxVars == <<index, walk, lastOp>>

VARIABLES
    pending,      \* CodeFileHandler._pending_changes, in insertion order
    timer,        \* ms left on the waiting _debounce_timer, -1 when none waits
    flushers,     \* timer threads inside _flush_changes: [pc, changes]
    age,          \* history: ms since the last event queued for each path
    nEvents,      \* history: events accepted by _queue_change
    handled,      \* history: on_change invocations per path (2: two or more)
    burst,        \* history: every event so far was a modified event on one
                  \*   path, less than the debounce delay after the previous
    early         \* history: the latest on_change call came less than the
                  \*   debounce delay after an event was queued for its path

watchVars == <<pending, timer, flushers, age, nEvents, handled, burst, early>>

VARIABLES
    max_tokens,   \* ContextWindowManager.max_tokens
    budget,       \* ContextWindowManager.budget
    items,        \* ContextWindowManager.items
    assembled     \* the AssembledContext assemble() returned for these items

asmVars == <<max_tokens, budget, items, assembled>>

VARIABLES
    threads,      \* the threads that write the index: where each one stands
                  \*   inside index_file / _add_to_index
    seen,         \* history: the latest read of a request task
    fresh         \* history: per path, the FileSymbols of the latest change the
                  \*   debouncer dispatched, while no other write followed

concVars == <<threads, seen, fresh>>

VARIABLES
    emb,          \* EmbeddingService.symbol_index.items: the ids it holds
    embedder      \* the sentence-transformers model can be loaded

embVars == <<emb, embedder>>

VARIABLES
    conversations,  \* MemoryService.conversations: id -> Conversation
    active,         \* MemoryService.active_conversation_id
    disk,           \* storage_dir/conversations: id -> content of <id>.json
    clock,          \* the reading datetime.now() gives next
    lastMem         \* history: the latest MemoryService call

memVars == <<conversations, active, disk, clock, lastMem>>

VARIABLES
    orch,           \* history: the latest orchestrate() call and what it returned
    ws              \* /ws/voice: the frames sent for the latest request, and
                    \*   whether the receive loop of the connection still runs

reqVars == <<orch, ws>>

VARIABLES
    call,           \* the arguments of the function under study
    ret             \* what it returned (None before the call)

funVars == <<call, ret>>

VARIABLES
    memories,       \* MemoryService.memories: id -> UserMemory
    memfile,        \* storage_dir/memories.json: id -> saved UserMemory
    lastStore       \* history: the latest memory call and what it returned

storeVars == <<memories, memfile, lastStore>>

VARIABLES
    file_mtimes,    \* IncrementalIndexer._file_mtimes: path -> mtime
    mtimes,         \* os.path.getmtime of the files of the directory
    unindexed,      \* history: files whose latest index_file attempt failed
    pull            \* history: the latest index_changed_files call

pullVars == <<file_mtimes, mtimes, unindexed, pull>>

VARIABLES
    dispatched    \* the changes handed to on_change so far, in call order
debVars == <<dispatched>>

vars == <<index, walk, lastOp, pending, timer, flushers, age, nEvents, handled,
          burst, early, max_tokens, budget, items, assembled, threads, seen,
          fresh, emb, embedder, conversations, active, disk, clock, lastMem,
          orch, ws, call, ret, memories, memfile, lastStore, file_mtimes,
          mtimes, unindexed, pull, dispatched>>

\* what the operations of one component leave alone
notIdx == <<watchVars, asmVars, concVars, memVars, reqVars, funVars, storeVars, pullVars, debVars>>
notWatch == <<asmVars, concVars, embVars, memVars, reqVars, funVars, storeVars, pullVars, debVars>>
notAsm == <<idxVars, watchVars, concVars, embVars, memVars, reqVars, funVars, storeVars, pullVars, debVars>>
notConc == <<idxVars, watchVars, asmVars, embVars, memVars, reqVars, funVars, storeVars, pullVars, debVars>>
notMem == <<idxVars, watchVars, asmVars, concVars, embVars, reqVars, funVars, storeVars, pullVars, debVars>>
notReq == <<idxVars, watchVars, asmVars, concVars, embVars, funVars, storeVars,
           pullVars, debVars>>
notFun == <<idxVars, watchVars, asmVars, concVars, embVars, memVars, reqVars,
           storeVars, pullVars, debVars>>
notStore == <<idxVars, watchVars, asmVars, concVars, embVars, reqVars, funVars,
             pullVars, debVars>>
notPull == <<idxVars, watchVars, asmVars, concVars, embVars, memVars, reqVars,
            funVars, storeVars, debVars>>

RECURSIVE SumLen(_, _)
SumLen(d, ks) ==
    IF ks = {} THEN 0
    ELSE LET k == CHOOSE x \in ks : TRUE
         IN Len(d[k]) + SumLen(d, ks \ {k})

\* the rows of the index stay within the cap
WithinCap(idx) == SumLen(idx.by_name, DOMAIN idx.by_name) <= MaxRows

\* full names of the symbols by_file holds for a path
FullNamesOf(idx, path) ==
    IF path \in DOMAIN idx.by_file
    THEN {full_name(sym) : sym \in Range(idx.by_file[path].symbols)}
    ELSE {}

\* a history entry; gone: the full names by_file held for the path the
\* operation removed (deleted: path, moved: old_path)
Op(op, path, old_path, gone) ==
    [op |-> op, path |-> path, old_path |-> old_path, gone |-> gone]

\* the history entry of a handled change: created and modified are an
\* index_file call; a move whose index_file returned None is "moved_none"
HandledOp(idx, change, ok) ==
    IF change.event_type = "deleted"
    THEN Op("deleted", change.path, None, FullNamesOf(idx, change.path))
    ELSE IF change.event_type = "moved"
    THEN Op(IF ok THEN "moved" ELSE "moved_none", change.path, change.old_path,
            FullNamesOf(idx, change.old_path))
    ELSE IF ok THEN Op("index_file", change.path, None, {})
    ELSE Op("index_file_none", None, None, {})

IdxInit ==
    /\ index = SymbolIndex
    /\ walk = <<>>
    /\ lastOp = Op("init", None, None, {})

\* a request task calls index_file(path, content) (context gathering)
IndexFile ==
    \E path \in AllPaths, content \in Contents \cup {Unreadable} :
        LET new == index_file(index, path, content)
        IN /\ walk = <<>>
           /\ WithinCap(new)
           /\ index' = new
           /\ walk' = walk
           /\ lastOp' = IF index_file_ok(path, content)
                        THEN Op("index_file", path, None, {})
                        ELSE Op("index_file_none", None, None, {})
           /\ UNCHANGED <<notIdx, embVars>>

\* index_project: self.index = SymbolIndex(project_root), the walk begins
IndexProjectStart ==
    /\ walk = <<>>
    /\ index' = SymbolIndex
    /\ walk' = WalkOrder
    /\ lastOp' = Op("index_project", None, None, {})
    /\ UNCHANGED <<notIdx, embVars>>

\* index_project: index_file on the next file of the walk
IndexProjectFile ==
    \E content \in Contents \cup {Unreadable} :
        LET new == index_file(index, Head(walk), content)
        IN /\ walk # <<>>
           /\ WithinCap(new)
           /\ index' = new
           /\ walk' = Tail(walk)
           /\ lastOp' = IF index_file_ok(Head(walk), content)
                        THEN Op("index_file", Head(walk), None, {})
                        ELSE Op("index_file_none", None, None, {})
           /\ UNCHANGED <<notIdx, embVars>>

\* the watcher thread hands a change to _handle_change: one of changes, for
\* a file holding one of contents
HandleChangeOf(changes, contents) ==
    \E change \in changes, content \in contents :
        LET new == _handle_change(index, change, content)
        IN /\ change.event_type = "deleted" => content = Unreadable
           /\ WithinCap(new)
           /\ index' = new
           /\ walk' = walk
           /\ lastOp' = HandledOp(index, change, index_file_ok(change.path, content))
           /\ emb' = _handle_change_embeddings(emb, change, content, embedder)
           /\ Cardinality(emb') <= MaxEmbedded
           /\ UNCHANGED <<notIdx, embedder>>

HandleChange == HandleChangeOf(Changes, Contents \cup {Unreadable})

\* ------------------------------------------------------------------------
\* CodeFileHandler: debounced queue of changes
\* ------------------------------------------------------------------------
\* self._debounce_delay = 0.5 seconds, in milliseconds
DebounceDelayMs == 500

\* position of the entry for a path in the pending dict, 0 when it has none
PendingPos(pend, path) ==
    IF \E i \in 1..Len(pend) : pend[i].path = path
    THEN CHOOSE i \in 1..Len(pend) : pend[i].path = path
    ELSE 0

\* a queue that appends every change instead of merging by path
AppendPending(pend, change) == Append(pend, change)

\* self._pending_changes[change.path] = change: a dict keeps the position of
\* a key it already holds
MergePending(pend, change) ==
    IF PendingPos(pend, change.path) = 0 THEN Append(pend, change)
    ELSE [pend EXCEPT ![PendingPos(pend, change.path)] = change]

\* threading.Timer(self._debounce_delay, ...).start()
StartTimer == DebounceDelayMs

\* the clock advances by d: a saturating age, and the time left on a timer
Older(a, d) ==
    IF a = -1 THEN -1
    ELSE IF a + d >= DebounceDelayMs THEN DebounceDelayMs ELSE a + d
Sooner(t, d) == IF t = -1 THEN -1 ELSE IF t - d <= 0 THEN 0 ELSE t - d

\* a content whose only definition is a function f, on line l
OnlyF(l) ==
    [x \in 1..MaxLine |->
        IF x = l THEN [name |-> "f", kind |-> "function", parent |-> None, calls |-> {}]
        ELSE NoDef]

\* what index_file may read from disk when the watcher dispatches: a file
\* defining f on its first line, or no readable file
WatchContents == {OnlyF(1), Unreadable}

\* the events of the watcher runs (a created event is queued and handled
\* just like a modified one)
WatchChanges == {c \in Changes : c.event_type # "created"}

\* ------------------------------------------------------------------------
\* Context window manager: token estimation and truncation
\* ------------------------------------------------------------------------
\* A text is described by what the two functions read of it:
\*   len    its length in characters
\*   code   it contains one of estimate_tokens' code_indicators
\*   brk    it contains one of the characters "{}()[];" truncate_to_tokens
\*          looks for
\*   width  a newline ends every width-th character (0: no newline)
Text(len, code, brk, width) == [len |-> len, code |-> code, brk |-> brk, width |-> width]

\* an estimate that counts 4 characters per token of code and 3 of prose
SwappedEstimate(text) ==
    IF text.len = 0 THEN 0
    ELSE text.len \div (IF text.code THEN 4 ELSE 3)

\* len(text) // chars_per_token, 3 for code and 4 for prose; 0 for ""
estimate_tokens(text) ==
    IF text.len = 0 THEN 0
    ELSE text.len \div (IF text.code THEN 3 ELSE 4)

\* len("\n... (truncated)")
TruncatedSuffixLen == 16

\* text[:max_chars].rfind("\n"): index of the last newline before max_chars
LastNewline(text, max_chars) ==
    IF text.width = 0 \/ max_chars < text.width THEN -1
    ELSE (max_chars \div text.width) * text.width - 1

\* truncate_to_tokens: the text returned.  The suffix holds "(" and ")", so
\* the result counts as code for estimate_tokens and for the bracket test.
truncate_to_tokens(text, max_tok) ==
    IF estimate_tokens(text) <= max_tok THEN text
    ELSE LET chars_per_token == IF text.brk THEN 3 ELSE 4
             max_chars == max_tok * chars_per_token
             last_newline == LastNewline(text, max_chars)
             kept == IF 5 * last_newline > 4 * max_chars
                     THEN last_newline ELSE max_chars
         IN IF text.len <= max_chars THEN text
            ELSE Text(kept + TruncatedSuffixLen, TRUE, TRUE, text.width)

\* ContextBudget defaults
BudgetSelection == 1500
BudgetCursor == 1000
BudgetFile == 2000
BudgetSymbols == 1500
BudgetHistory == 1000
BudgetMemory == 500
BudgetProject == 500
\* budgets.get(category, 500)
BudgetFallback == 500

\* ContextBudget(total=max_tokens)
ContextBudget ==
    [selection |-> BudgetSelection, cursor |-> BudgetCursor, file |-> BudgetFile,
     symbol |-> BudgetSymbols, history |-> BudgetHistory, memory |-> BudgetMemory,
     project |-> BudgetProject]

\* the budget ContextBuilder.build_for_coding passes
CodingSelection == 2000
CodingProject == 200
CodingBudget ==
    [ContextBudget EXCEPT !.selection = CodingSelection, !.cursor = 1500,
                          !.history = 500, !.memory = 300, !.project = CodingProject]

\* _get_category_budget
_get_category_budget(b, category) ==
    IF category \in DOMAIN b THEN b[category] ELSE BudgetFallback

\* truncated content is included only above this many tokens
MeaningfulTokens == 100

\* ContextItem(content, priority, category, source): tokens is estimated in
\* __post_init__ when it is 0
ContextItem(content, priority, category, source, tokens) ==
    [content |-> content, priority |-> priority, category |-> category,
     source |-> source,
     tokens |-> IF tokens = 0 THEN estimate_tokens(content) ELSE tokens]

\* sorted(items, key=priority, reverse=True): stable, highest priority first
RECURSIVE InsertByPriority(_, _)
InsertByPriority(sorted, item) ==
    IF sorted = <<>> THEN <<item>>
    ELSE IF Head(sorted).priority < item.priority THEN <<item>> \o sorted
    ELSE <<Head(sorted)>> \o InsertByPriority(Tail(sorted), item)

RECURSIVE SortByPriority(_, _)
SortByPriority(list, acc) ==
    IF list = <<>> THEN acc
    ELSE SortByPriority(Tail(list), InsertByPriority(acc, Head(list)))

\* [i for i in sorted_items if i.category in include_categories]
RECURSIVE FilterCategories(_, _)
FilterCategories(list, include) ==
    IF list = <<>> THEN <<>>
    ELSE (IF Head(list).category \in include THEN <<Head(list)>> ELSE <<>>)
         \o FilterCategories(Tail(list), include)

\* category_usage.get(category, 0)
UsageOf(usage, category) == DictGet(usage, category, 0)

\* assemble: one iteration of the loop over sorted_items
AssembleItem(acc, item, max_tok, b) ==
    LET category_used == UsageOf(acc.category_usage, item.category)
        category_remaining == _get_category_budget(b, item.category) - category_used
        total_remaining == max_tok - acc.total_tokens
        available_tokens == IF category_remaining < total_remaining
                            THEN category_remaining ELSE total_remaining
        truncated_content == truncate_to_tokens(item.content, available_tokens)
        truncated_tokens == estimate_tokens(truncated_content)
        excluded == [acc EXCEPT !.items_excluded = Append(@, item.source)]
    IN IF total_remaining <= 0 THEN excluded
       ELSE IF category_remaining <= 0 THEN excluded
       ELSE IF item.tokens <= available_tokens
       THEN [acc EXCEPT !.included_items = Append(@, item),
                        !.total_tokens = @ + item.tokens,
                        !.category_usage =
                            DictPut(@, item.category, category_used + item.tokens)]
       ELSE IF truncated_tokens > MeaningfulTokens
       THEN [acc EXCEPT
                !.included_items =
                    Append(@, ContextItem(truncated_content, item.priority,
                                          item.category, item.source,
                                          truncated_tokens)),
                !.total_tokens = @ + truncated_tokens,
                !.category_usage =
                    DictPut(@, item.category, category_used + truncated_tokens),
                !.items_truncated = Append(@, item.source)]
       ELSE excluded

RECURSIVE AssembleLoop(_, _, _, _)
AssembleLoop(acc, sorted, max_tok, b) ==
    IF sorted = <<>> THEN acc
    ELSE AssembleLoop(AssembleItem(acc, Head(sorted), max_tok, b),
                      Tail(sorted), max_tok, b)

\* the accumulators of assemble before its loop; called is FALSE only in the
\* value that stands for "assemble was not called yet"
NoAssembly ==
    [called |-> FALSE, total_tokens |-> 0, category_usage |-> EmptyDict,
     included_items |-> <<>>, items_truncated |-> <<>>, items_excluded |-> <<>>]

\* ContextWindowManager.assemble(include_categories): total_tokens, the
\* included items and the item lists of the AssembledContext, with the
\* category_usage the loop ended with (an empty include set is falsy)
assemble(its, max_tok, b, include) ==
    LET by_priority == SortByPriority(its, <<>>)
        sorted_items == IF include = {} THEN by_priority
                        ELSE FilterCategories(by_priority, include)
    IN AssembleLoop([NoAssembly EXCEPT !.called = TRUE], sorted_items, max_tok, b)

\* the texts, categories and priorities the items of a run are drawn from:
\* short and long prose, long code with and without newlines, and code that
\* only a keyword such as "def " marks
Texts ==
    {Text(0, FALSE, FALSE, 0), Text(200, FALSE, FALSE, 0),
     Text(6000, FALSE, FALSE, 0), Text(6000, TRUE, TRUE, 0),
     Text(6000, TRUE, TRUE, 50), Text(1000, TRUE, FALSE, 0)}

\* priorities ContextBuilder assigns: selection, current file, project tree
PriorityOf(category) ==
    IF category = "selection" THEN 100
    ELSE IF category = "file" THEN 60
    ELSE 30

Categories == {"selection", "file", "project"}

ItemChoices ==
    {ContextItem(t, PriorityOf(c), c, <<c, t.len>>, 0) : t \in Texts, c \in Categories}

\* max_tokens of a manager: the default, and a small window
DefaultMaxTokens == 8000
SmallMaxTokens == 300

\* ------------------------------------------------------------------------
\* Properties of the symbol index
\* ------------------------------------------------------------------------
\* every Symbol some list of a dict holds
Rows(d) == UNION {Range(d[k]) : k \in DOMAIN d}

\* every Symbol by_file lists
FileRows(idx) == UNION {Range(idx.by_file[p].symbols) : p \in DOMAIN idx.by_file}

\* the (caller, callee) pairs of call_graph, and those of reverse_call_graph
ForwardEdges(idx) ==
    UNION {{<<c, e>> : e \in idx.call_graph[c]} : c \in DOMAIN idx.call_graph}
ReverseEdges(idx) ==
    UNION {{<<c, e>> : c \in idx.reverse_call_graph[e]} :
             e \in DOMAIN idx.reverse_call_graph}

\* the identity of a Symbol for deduplication
Triple(sym) == <<sym.file_path, sym.line, sym.name>>

NoDuplicateTriple(list) ==
    \A i, j \in 1..Len(list) : i # j => Triple(list[i]) # Triple(list[j])

\* C1 (first half): every Symbol by_file lists is in by_name[S.name] and in
\* by_kind[S.kind].
FileRowsAreIndexed ==
    \A sym \in FileRows(index) :
        /\ sym \in Range(DictGet(index.by_name, sym.name, <<>>))
        /\ sym \in Range(DictGet(index.by_kind, sym.kind, <<>>))

\* C1: in every reachable state, every Symbol listed in by_file[p].symbols
\* is in by_name[S.name] and by_kind[S.kind], and every Symbol in by_name or
\* by_kind is listed in by_file[S.file_path].symbols.
C1_MapsAgree ==
    /\ FileRowsAreIndexed
    /\ \A sym \in Rows(index.by_name) \cup Rows(index.by_kind) :
          /\ sym.file_path \in DOMAIN index.by_file
          /\ sym \in Range(index.by_file[sym.file_path].symbols)

\* C2: in every reachable state, no (file_path, line, name) triple occurs
\* twice in a by_name list or in a by_kind list.
C2_NoDuplicateRows ==
    /\ \A n \in DOMAIN index.by_name : NoDuplicateTriple(index.by_name[n])
    /\ \A k \in DOMAIN index.by_kind : NoDuplicateTriple(index.by_kind[k])

\* C3: after index_file(p) returned a FileSymbols, by_file, by_name and
\* by_kind hold no Symbol of path p other than those of the content just
\* indexed (which by_file[p] lists).
C3_NoStaleRowAfterIndexFile ==
    lastOp.op \in {"index_file", "moved"} =>
        /\ lastOp.path \in DOMAIN index.by_file
        /\ \A sym \in Rows(index.by_name) \cup Rows(index.by_kind) :
              sym.file_path = lastOp.path =>
                  sym \in Range(index.by_file[lastOp.path].symbols)

\* C4: in every reachable state, callee e is in call_graph[c] if and only
\* if caller c is in reverse_call_graph[e].
C4_GraphsAreInverse == ForwardEdges(index) = ReverseEdges(index)

\* C5: in every reachable state, every callee of a call-graph edge has at
\* least one Symbol in by_name.
C5_CalleesAreDefined ==
    \A edge \in ForwardEdges(index) :
        DictGet(index.by_name, edge[2], <<>>) # <<>>

\* C6: after the watcher handled a deleted event for path p, by_file has no
\* entry for p, by_name and by_kind hold no Symbol of p, and neither graph
\* holds an edge whose caller was defined in p (and in no file still indexed).
C6_DeletedFileIsPurged ==
    lastOp.op = "deleted" =>
        /\ lastOp.path \notin DOMAIN index.by_file
        /\ \A sym \in Rows(index.by_name) \cup Rows(index.by_kind) :
              sym.file_path # lastOp.path
        /\ \A edge \in ForwardEdges(index) \cup ReverseEdges(index) :
              edge[1] \in lastOp.gone =>
                  \E sym \in FileRows(index) : full_name(sym) = edge[1]

\* ------------------------------------------------------------------------
\* The watcher: events, timer threads, dispatch
\* ------------------------------------------------------------------------
WatchInit ==
    /\ pending = <<>>
    /\ timer = -1
    /\ flushers = <<>>
    /\ age = [p \in CodePaths |-> -1]
    /\ nEvents = 0
    /\ handled = [p \in CodePaths |-> 0]
    /\ burst = TRUE
    /\ early = FALSE

\* the event keeps the history inside the burst of C7: a modified event, on
\* the path of the earlier events, less than the delay after the previous one
\* (an event arrives when _queue_change queues it)
StaysBurst(change) ==
    /\ burst
    /\ change.event_type = "modified"
    /\ \A p \in CodePaths : age[p] # -1 => p = change.path
    /\ age[change.path] < DebounceDelayMs

\* on_created / on_modified / on_deleted / on_moved for a path that passes
\* _should_process, i.e. _queue_change under the lock: merge the change,
\* cancel the waiting timer, start a new one
OnEvent ==
    \E change \in WatchChanges :
        /\ nEvents < MaxEvents
        /\ pending' = MergePending(pending, change)
        /\ timer' = StartTimer
        /\ age' = [age EXCEPT ![change.path] = 0]
        /\ nEvents' = nEvents + 1
        /\ burst' = StaysBurst(change)
        /\ UNCHANGED <<flushers, handled, early, idxVars, notWatch>>

\* time passes
Tick ==
    /\ \E p \in CodePaths : age[p] \notin {-1, DebounceDelayMs}
    /\ age' = [p \in CodePaths |-> Older(age[p], TickMs)]
    /\ timer' = Sooner(timer, TickMs)
    /\ UNCHANGED <<pending, flushers, nEvents, handled, burst, early, idxVars, notWatch>>

\* Timer.run: the wait is over and the timer was not cancelled, the thread
\* goes on to call _flush_changes
TimerExpire ==
    /\ timer = 0
    /\ timer' = -1
    /\ flushers' = Append(flushers, [pc |-> "run", changes |-> <<>>])
    /\ UNCHANGED <<pending, age, nEvents, handled, burst, early, idxVars, notWatch>>

\* _flush_changes under the lock: snapshot the pending changes and clear them
FlushSnapshot ==
    \E i \in 1..Len(flushers) :
        /\ flushers[i].pc = "run"
        /\ flushers' = [flushers EXCEPT ![i] = [pc |-> "dispatch", changes |-> pending]]
        /\ pending' = <<>>
        /\ UNCHANGED <<timer, age, nEvents, handled, burst, early, idxVars, notWatch>>

\* seq without its i-th element
DropAt(seq, i) == SubSeq(seq, 1, i - 1) \o SubSeq(seq, i + 1, Len(seq))

\* _flush_changes outside the lock: self.on_change(change) for the next
\* change of the snapshot, which is FileWatcherService._handle_change
FlushDispatch ==
    \E i \in 1..Len(flushers), content \in WatchContents :
        /\ flushers[i].pc = "dispatch"
        /\ flushers[i].changes # <<>>
        /\ LET change == Head(flushers[i].changes)
               new == _handle_change(index, change, content)
           IN /\ change.event_type = "deleted" => content = Unreadable
              /\ WithinCap(new)
              /\ index' = new
              /\ lastOp' = HandledOp(index, change, index_file_ok(change.path, content))
              /\ handled' = [handled EXCEPT ![change.path] = IF @ >= 2 THEN 2 ELSE @ + 1]
              /\ early' = (age[change.path] < DebounceDelayMs)
              /\ flushers' = [flushers EXCEPT ![i].changes = Tail(@)]
              /\ emb' = _handle_change_embeddings(emb, change, content, embedder)
              /\ Cardinality(emb') <= MaxEmbedded
        /\ UNCHANGED <<walk, pending, timer, age, nEvents, burst, asmVars, concVars,
                       embedder, memVars, reqVars, funVars, storeVars, pullVars, debVars>>

\* _flush_changes returns and the timer thread ends
FlushDone ==
    \E i \in 1..Len(flushers) :
        /\ flushers[i].pc = "dispatch"
        /\ flushers[i].changes = <<>>
        /\ flushers' = DropAt(flushers, i)
        /\ UNCHANGED <<pending, timer, age, nEvents, handled, burst, early, idxVars, notWatch>>

\* ------------------------------------------------------------------------
\* The context window manager
\* ------------------------------------------------------------------------
\* ContextWindowManager(max_tokens, budget)
AsmInit ==
    /\ max_tokens \in {DefaultMaxTokens, SmallMaxTokens}
    /\ budget \in {ContextBudget, CodingBudget}
    /\ items = <<>>
    /\ assembled = NoAssembly

\* add_item
AddItem ==
    \E item \in ItemChoices :
        /\ Len(items) < MaxItems
        /\ items' = Append(items, item)
        /\ assembled' = NoAssembly
        /\ UNCHANGED <<max_tokens, budget, notAsm>>

\* clear
Clear ==
    /\ items # <<>>
    /\ items' = <<>>
    /\ assembled' = NoAssembly
    /\ UNCHANGED <<max_tokens, budget, notAsm>>

\* assemble(include_categories=...)
Assemble ==
    \E include \in {{}, {"selection", "project"}} :
        /\ assembled' = assemble(items, max_tokens, budget, include)
        /\ UNCHANGED <<max_tokens, budget, items, notAsm>>

\* ------------------------------------------------------------------------
\* Threads on the shared index
\* ------------------------------------------------------------------------
\* index_file runs without a lock on the asyncio thread of the request tasks
\* (get_context) and on the Timer threads of the debouncer (_flush_changes
\* calls on_change outside its lock).  A step of a thread is one statement or
\* one loop iteration of _add_to_index: the interpreter may switch threads
\* between any two of them.
ThreadIds == {"request", "timer"}
TimerThreads == {"timer"}

\* the file the threads index, and what they read from it
ConcPaths == {"a.py"}
ConcContents == {OnlyF(l) : l \in 1..MaxLine}

NoFile == [file_path |-> None, symbols |-> <<>>]

\* a thread outside index_file
IdleThread ==
    [pc |-> "idle", fs |-> NoFile, call_map |-> EmptyDict, old |-> <<>>,
     todo |-> <<>>, alone |-> TRUE, pre |-> SymbolIndex]

\* the thread is between the first and the last statement of _add_to_index
InWrite(t) == threads[t].pc \in {"remove", "insert"}

\* a read that has not happened
NoRead == [op |-> None, arg |-> None, hybrid |-> FALSE, stale |-> FALSE]

ConcInit ==
    /\ threads = [t \in ThreadIds |-> IdleThread]
    /\ seen = NoRead
    /\ fresh = [p \in ConcPaths |-> NoFile]

\* index_file(path) is called and reads and parses the file: by a request
\* task from get_context, or by a Timer thread through on_change(change) for
\* a created or modified change (the dispatch of the change)
BeginIndexFile(t) ==
    \E path \in ConcPaths, content \in ConcContents :
        LET ex == extract_python_symbols(path, content)
        IN /\ threads[t].pc = "idle"
           /\ threads' =
                 [u \in ThreadIds |->
                    IF u = t
                    THEN [IdleThread EXCEPT
                            !.pc = "parsed", !.fs = ex.fs, !.call_map = ex.call_map,
                            !.alone = \A v \in ThreadIds \ {t} : threads[v].pc = "idle"]
                    ELSE IF threads[u].pc = "idle" THEN threads[u]
                    ELSE [threads[u] EXCEPT !.alone = FALSE]]
           /\ fresh' = [fresh EXCEPT ![path] = IF t \in TimerThreads THEN ex.fs ELSE NoFile]
           /\ UNCHANGED <<seen, notConc>>

\* old = self.index.by_file.get(file_symbols.file_path)
ReadOld(t) ==
    /\ threads[t].pc = "parsed"
    /\ threads' = [threads EXCEPT
            ![t].pc = "remove",
            ![t].old = DictGet(index.by_file, threads[t].fs.file_path, NoFile).symbols,
            ![t].pre = index]
    /\ UNCHANGED <<seen, fresh, notConc>>

\* one iteration of the removal loop
RemoveStep(t) ==
    /\ threads[t].pc = "remove"
    /\ threads[t].old # <<>>
    /\ index' = RemoveOld(index, <<Head(threads[t].old)>>)
    /\ threads' = [threads EXCEPT ![t].old = Tail(@)]
    /\ UNCHANGED <<walk, lastOp, seen, fresh, watchVars, asmVars, embVars, memVars, reqVars, funVars, storeVars, pullVars, debVars>>

\* self.index.by_file[file_symbols.file_path] = file_symbols
PlaceFile(t) ==
    /\ threads[t].pc = "remove"
    /\ threads[t].old = <<>>
    /\ index' = [index EXCEPT !.by_file = DictPut(@, threads[t].fs.file_path, threads[t].fs)]
    /\ threads' = [threads EXCEPT ![t].pc = "insert", ![t].todo = threads[t].fs.symbols]
    /\ UNCHANGED <<walk, lastOp, seen, fresh, watchVars, asmVars, embVars, memVars, reqVars, funVars, storeVars, pullVars, debVars>>

\* one iteration of the insertion loop
InsertStep(t) ==
    /\ threads[t].pc = "insert"
    /\ threads[t].todo # <<>>
    /\ WithinCap(AddNew(index, <<Head(threads[t].todo)>>))
    /\ index' = AddNew(index, <<Head(threads[t].todo)>>)
    /\ threads' = [threads EXCEPT ![t].todo = Tail(@)]
    /\ UNCHANGED <<walk, lastOp, seen, fresh, watchVars, asmVars, embVars, memVars, reqVars, funVars, storeVars, pullVars, debVars>>

\* the call-graph loop, and index_file returns
FinishIndexFile(t) ==
    /\ threads[t].pc = "insert"
    /\ threads[t].todo = <<>>
    /\ index' = UpdateCallGraph(index, threads[t].call_map)
    /\ threads' = [threads EXCEPT ![t] = IdleThread]
    /\ UNCHANGED <<walk, lastOp, seen, fresh, watchVars, asmVars, embVars, memVars, reqVars, funVars, storeVars, pullVars, debVars>>

\* the one thread inside _add_to_index, when it is a Timer thread and no
\* other write overlapped its index_file call
LoneWriters ==
    {t \in TimerThreads :
        /\ InWrite(t)
        /\ threads[t].alone
        /\ \A u \in ThreadIds \ {t} : threads[u].pc = "idle"}

\* the index once the write of thread t is complete
PostOf(t) == _add_to_index(threads[t].pre, threads[t].fs, threads[t].call_map)

\* find_symbol(name)
find_symbol(idx, name) == DictGet(idx.by_name, name, <<>>)

\* get_file_symbols(file_path)
get_file_symbols(idx, path) == DictGet(idx.by_file, path, NoFile)

\* a request task calls find_symbol(name); hybrid: a lone watcher write is
\* under way and the result is neither the one before nor the one after it
ReadSymbol ==
    \E name \in Names :
        /\ threads["request"].pc = "idle"
        /\ seen' = [op |-> "find_symbol", arg |-> name,
                    hybrid |-> \E t \in LoneWriters :
                        find_symbol(index, name) \notin
                            {find_symbol(threads[t].pre, name),
                             find_symbol(PostOf(t), name)},
                    stale |-> FALSE]
        /\ UNCHANGED <<threads, fresh, notConc>>

\* a request task calls get_file_symbols(path); stale: the debouncer has
\* dispatched a change of the path and the result is not the file's symbols
\* after that change
ReadFile ==
    \E path \in ConcPaths :
        /\ threads["request"].pc = "idle"
        /\ seen' = [op |-> "get_file_symbols", arg |-> path,
                    hybrid |-> FALSE,
                    stale |-> /\ fresh[path] # NoFile
                              /\ get_file_symbols(index, path) # fresh[path]]
        /\ UNCHANGED <<threads, fresh, notConc>>

\* ------------------------------------------------------------------------
\* MemoryService: conversations and their persistence
\* ------------------------------------------------------------------------
\* no conversation id (None, falsy in `conv_id or self.active_conversation_id`)
NoId == 0

\* an id no conversation of the store has (ids are 12 hex digits of an md5)
UnknownId == -1

Roles == {"user", "assistant", "system"}

\* what callers pass as metadata: nothing (`metadata or {}` makes it the
\* empty dict), or the orchestrator's dict with an intent that may be None
Metadatas == {EmptyDict, [intent |-> None, file_path |-> "a.py"]}

ChatMessage(role, content, timestamp, metadata) ==
    [role |-> role, content |-> content, timestamp |-> timestamp,
     metadata |-> metadata]

Conversation(id, title, messages, created_at, updated_at) ==
    [id |-> id, title |-> title, messages |-> messages,
     created_at |-> created_at, updated_at |-> updated_at]

\* json.dump and json.load of a str (timestamps and ids are strings too)
json_string(v) == [t |-> "string", v |-> v]
\* json.dump and json.load of a value that is a str or None
json_dump(v) == IF v = None THEN [t |-> "null"] ELSE json_string(v)
json_load(j) == IF j.t = "null" THEN None ELSE j.v

\* asdict(m) as json.dump writes it
DumpMessage(m) ==
    [role |-> json_string(m.role), content |-> json_string(m.content),
     timestamp |-> json_string(m.timestamp),
     metadata |-> [k \in DOMAIN m.metadata |-> json_dump(m.metadata[k])]]

\* ChatMessage(**msg_data) on what json.load reads
LoadMessage(j) ==
    ChatMessage(j.role.v, j.content.v, j.timestamp.v,
                [k \in DOMAIN j.metadata |-> json_load(j.metadata[k])])

\* _save_conversation: <id>.json holds the dumped conversation
_save_conversation(d, conv) ==
    DictPut(d, conv.id,
            [id |-> json_string(conv.id), title |-> json_string(conv.title),
             messages |-> [i \in 1..Len(conv.messages) |-> DumpMessage(conv.messages[i])],
             created_at |-> json_string(conv.created_at),
             updated_at |-> json_string(conv.updated_at)])

\* _load_from_disk: the conversations of a fresh store, keyed by data["id"]
_load_from_disk(d) ==
    [id \in {d[f].id.v : f \in DOMAIN d} |->
        LET data == d[CHOOSE f \in DOMAIN d : d[f].id.v = id]
        IN Conversation(data.id.v, data.title.v,
                        [i \in 1..Len(data.messages) |-> LoadMessage(data.messages[i])],
                        data.created_at.v, data.updated_at.v)]

\* list[k:] of Python, k possibly negative
SliceFrom(list, k) ==
    LET n == Len(list)
        start == IF k < 0 THEN (IF n + k < 0 THEN 0 ELSE n + k)
                 ELSE (IF k > n THEN n ELSE k)
    IN SubSeq(list, start + 1, n)

IsSystem(m) == m.role = "system"

\* a history that keeps the messages as they are, never trimmed
KeepAll(messages, cap) == messages

\* add_message, trimming: system messages, then the slice
\* messages[-max_history_length + len(system_msgs):]
TrimHistory(messages, cap) ==
    IF Len(messages) > cap
    THEN LET system_msgs == SelectSeq(messages, IsSystem)
         IN system_msgs \o SliceFrom(messages, Len(system_msgs) - cap)
    ELSE messages

\* a store that writes the file before the history is trimmed
SaveUntrimmed(d, conv, untrimmed) ==
    _save_conversation(d, [conv EXCEPT !.messages = untrimmed])

\* add_message, auto-save: the conversation as it is after trimming
AutoSave(d, conv, untrimmed) == _save_conversation(d, conv)

MemCall(op, conv, before) == [op |-> op, conv |-> conv, before |-> before]

MemInit ==
    /\ conversations = EmptyDict
    /\ active = NoId
    /\ disk = EmptyDict
    /\ clock = 1
    /\ lastMem = MemCall("init", NoId, <<>>)

\* create_conversation(title): the id comes from the title and the time
CreateConversation ==
    LET conv == Conversation(clock, "New Conversation", <<>>, clock, clock)
    IN /\ clock <= MaxCalls
       /\ conversations' = DictPut(conversations, conv.id, conv)
       /\ active' = conv.id
       /\ disk' = _save_conversation(disk, conv)
       /\ clock' = clock + 1
       /\ lastMem' = MemCall("create_conversation", conv.id, <<>>)
       /\ UNCHANGED notMem

\* the fields of a MemoryService and its storage directory, as one value
Store(convs, act, d, clk) ==
    [conversations |-> convs, active |-> act, disk |-> d, clock |-> clk]

\* add_message(role, content, conv_id, metadata) on the store st: the store
\* it leaves, whether it raised ValueError, the conversation written and its
\* messages after the append, before the trim
add_message(st, role, content, conv_id, metadata) ==
    LET wanted == IF conv_id # NoId THEN conv_id ELSE st.active
        fresh_conv == Conversation(st.clock, "New Conversation", <<>>, st.clock, st.clock)
        convs1 == IF wanted = NoId
                  THEN DictPut(st.conversations, fresh_conv.id, fresh_conv)
                  ELSE st.conversations
        disk1 == IF wanted = NoId THEN _save_conversation(st.disk, fresh_conv) ELSE st.disk
        target_id == IF wanted = NoId THEN fresh_conv.id ELSE wanted
        now == IF wanted = NoId THEN st.clock + 1 ELSE st.clock
        message == ChatMessage(role, content, now, metadata)
        appended == Append(convs1[target_id].messages, message)
        conversation == [convs1[target_id] EXCEPT
                            !.messages = TrimHistory(appended, MaxHistory),
                            !.updated_at = now]
    IN IF target_id \notin DOMAIN convs1
       THEN \* raise ValueError
            [store |-> st, raised |-> TRUE, target |-> target_id, appended |-> <<>>]
       ELSE [store |-> Store(DictPut(convs1, target_id, conversation),
                             IF wanted = NoId THEN target_id ELSE st.active,
                             AutoSave(disk1, conversation, appended),
                             now + 1),
             raised |-> FALSE, target |-> target_id, appended |-> appended]

\* a call of add_message from outside the orchestrator
AddMessage ==
    \E role \in Roles, conv_id \in {NoId, UnknownId} \cup DOMAIN conversations,
       metadata \in Metadatas :
        \E r \in {add_message(Store(conversations, active, disk, clock),
                              role, "hi", conv_id, metadata)} :
           \* the callers of the repository pass metadata with user messages only
           /\ role # "user" => metadata = EmptyDict
           /\ clock <= MaxCalls /\ r.store.clock <= MaxCalls + 1
           /\ conversations' = r.store.conversations
           /\ active' = r.store.active
           /\ disk' = r.store.disk
           /\ clock' = r.store.clock
           /\ lastMem' = IF r.raised
                         THEN MemCall("add_message_raised", r.target, <<>>)
                         ELSE MemCall("add_message", r.target, r.appended)
           /\ UNCHANGED notMem

\* set_active_conversation(conv_id): an unknown id is refused (returns False)
SetActiveConversation ==
    \E conv_id \in {UnknownId} \cup DOMAIN conversations :
        /\ active # conv_id
        /\ IF conv_id \in DOMAIN conversations
           THEN /\ active' = conv_id
                /\ lastMem' = MemCall("set_active_conversation", conv_id, <<>>)
           ELSE /\ active' = active
                /\ lastMem' = MemCall("set_active_conversation_refused", NoId, <<>>)
        /\ UNCHANGED <<conversations, disk, clock, notMem>>

\* a delete_conversation that leaves active_conversation_id as it is
KeepActive(current, conv_id) == current

\* delete_conversation, "Clear active if deleted"
ActiveAfterDelete(current, conv_id) == IF current = conv_id THEN NoId ELSE current

\* delete_conversation(conv_id)
DeleteConversation ==
    \E conv_id \in DOMAIN conversations :
        /\ conversations' = DictDel(conversations, conv_id)
        /\ disk' = IF conv_id \in DOMAIN disk THEN DictDel(disk, conv_id) ELSE disk
        /\ active' = ActiveAfterDelete(active, conv_id)
        /\ lastMem' = MemCall("delete_conversation", conv_id, <<>>)
        /\ UNCHANGED <<clock, notMem>>

\* clear_all(): memory and the storage directory are emptied
ClearAll ==
    /\ conversations # EmptyDict
    /\ conversations' = EmptyDict
    /\ active' = NoId
    /\ disk' = EmptyDict
    /\ lastMem' = MemCall("clear_all", NoId, <<>>)
    /\ UNCHANGED <<clock, notMem>>

\* a new process builds its MemoryService from the storage directory
Restart ==
    /\ lastMem.op # "restart"
    /\ conversations' = _load_from_disk(disk)
    /\ active' = NoId
    /\ lastMem' = MemCall("restart", NoId, <<>>)
    /\ UNCHANGED <<disk, clock, notMem>>

\* ------------------------------------------------------------------------
\* The orchestrator (app/agents/orchestrator.py)
\* ------------------------------------------------------------------------
\* IntentType
Intents == {"coding", "debug", "workflow", "explain", "chat", "plan"}

\* the intents of the modelled requests: debug builds its response text
\* itself, coding and chat pass the text of the agent or the LLM on
SomeIntents == {"coding", "debug", "chat"}

\* route_by_intent: the agent node an intent is routed to
route_by_intent(intent) == IF intent = "plan" THEN "planning" ELSE intent

\* str(e) of the exceptions an agent raises; an exception built without
\* arguments (asyncio.TimeoutError()) has the empty text
ErrorTexts == {"", "timed out"}

\* what the agent or LLM behind a node does: it returns a text (possibly
\* the empty string) or raises
Outcomes ==
    [ok : {TRUE}, text : {"", "answer"}] \cup [ok : {FALSE}, text : ErrorTexts]

\* the requests orchestrate() is given: whether the transcript is a str,
\* whether get_context works, the detected intent, the agent's outcome
OrchRequests ==
    [text_is_str : BOOLEAN, gather_ok : BOOLEAN, intent : SomeIntents, outcome : Outcomes]

\* gather_context_node: a failure of get_context is caught and answered
\* with a minimal context; the node returns no "error" key either way
gather_context_node(req) ==
    [context |-> IF req.gather_ok THEN "enriched" ELSE "minimal"]

\* the "type" of the result a node returns
ResultType(node) ==
    CASE node = "coding" -> "code_action"
      [] node = "debug" -> "debug_result"
      [] node = "workflow" -> "workflow_result"
      [] node = "explain" -> "explanation"
      [] node = "planning" -> "plan_result"
      [] OTHER -> "chat"

\* response_text of a node whose agent returned: debug and planning build
\* a sentence of their own, the other nodes pass the agent's text on
NodeText(node, text) ==
    CASE node = "debug" -> "No bugs found. The code looks good."
      [] node = "planning" -> "Created execution plan"
      [] OTHER -> text

\* coding_node .. planning_node: the state update the node returns
agent_node(node, outcome) ==
    IF outcome.ok
    THEN [result |-> ResultType(node), response_text |-> NodeText(node, outcome.text),
          error |-> None]
    ELSE [result |-> None, response_text |-> "I had trouble. Please try again.",
          error |-> outcome.text]

\* the stages of a request that raised
FailedStages(req) ==
    (IF req.gather_ok THEN {} ELSE {"gather_context"})
        \cup (IF req.text_is_str THEN {} ELSE {"detect_intent"})
        \cup (IF req.text_is_str /\ ~req.outcome.ok
              THEN {route_by_intent(req.intent)} ELSE {})

\* the turn is always saved, whatever the response text
SaveAlways(response_text) == TRUE

\* orchestrate, "Save to conversation history": if response_text:
SavesTurn(response_text) == response_text # ""

\* add_to_history -> add_turn: the user message with the metadata, then the
\* assistant message, both to the active conversation
add_turn(st, user_message, assistant_message, user_metadata) ==
    LET first == add_message(st, "user", user_message, NoId, user_metadata)
    IN IF first.raised THEN first
       ELSE add_message(first.store, "assistant", assistant_message, NoId, EmptyDict)

\* orchestrate(transcript, ...) on the store st: detect_intent_node calls
\* transcript.lower() outside any try, so a transcript that is not a str makes
\* ainvoke raise and the outer except builds the response
orchestrate(st, req) ==
    LET gathered == gather_context_node(req)
        final == agent_node(route_by_intent(req.intent), req.outcome)
        saved == req.text_is_str /\ SavesTurn(final.response_text)
        turn == add_turn(st, "hi", final.response_text,
                         [intent |-> req.intent, file_path |-> "a.py"])
    IN [response |->
            IF req.text_is_str
            THEN [intent |-> req.intent, result |-> final.result,
                  response_text |-> final.response_text, error |-> final.error]
            ELSE [intent |-> "error", result |-> None,
                  response_text |-> "Something went wrong. Please try again.",
                  error |-> "'int' object has no attribute 'lower'"],
        store |-> IF saved THEN turn.store ELSE st,
        saved |-> saved,
        failed |-> FailedStages(req),
        context |-> gathered.context]

NoOrch ==
    [called |-> FALSE, failed |-> {},
     response |-> [intent |-> None, result |-> None, response_text |-> "",
                   error |-> None],
     active_before |-> NoId, before |-> <<>>]

\* ------------------------------------------------------------------------
\* The voice websocket (app/api/websocket.py)
\* ------------------------------------------------------------------------
NoWs == [kind |-> "none", started |-> FALSE, frames |-> <<>>, open |-> TRUE]

\* MemoryService(): no memories, no memories.json
StoreInit ==
    /\ memories = EmptyDict
    /\ memfile = EmptyDict
    /\ lastStore = [op |-> "init", returned |-> {}, before |-> EmptyDict, at |-> 0]

\* no change has been handed to on_change
DebInit == dispatched = <<>>

\* IncrementalIndexer(): nothing cached; the directory holds files written
\* at time 1
PullInit ==
    /\ file_mtimes = EmptyDict
    /\ mtimes = [p \in CodePaths |-> 1]
    /\ unindexed = {}
    /\ pull = [called |-> FALSE, changed_files |-> {}, owed |-> {}]

ReqInit ==
    /\ orch = NoOrch
    /\ ws = NoWs

FunInit ==
    /\ call = None
    /\ ret = [done |-> FALSE, value |-> <<>>]

\* n frames of one type
Repeat(frame, n) == [i \in 1..n |-> frame]

\* the TTS block of both handlers: a failure of text_to_speech or of
\* send_bytes is logged, tts_done is sent all the same
tts_frames(tts) ==
    <<"tts_start">> \o (IF tts = "ok" THEN <<"binary">> ELSE <<>>) \o <<"tts_done">>

\* skip_tts of the message and, without it, whether text_to_speech works
TtsModes == {"skip", "ok", "fail"}

\* the kinds of action parse_command yields: LLM_ACTIONS, N8N_ACTIONS, and
\* the IDE actions handle_action turns into an instruction
ActionKinds == {"llm", "n8n", "ide"}

\* the text_command messages: whether "text" is a str, the kind of the
\* parsed action, the chunks the LLM streams before it ends or raises
TextCommands ==
    [text_is_str : BOOLEAN, action : ActionKinds, chunks : 0..MaxChunks,
     llm_ok : BOOLEAN, tts : TtsModes]

\* _handle_transcript: the frames it sends and whether it raised;
\* parse_command calls transcript.lower() before any frame is sent
_handle_transcript(cmd) ==
    IF ~cmd.text_is_str
    THEN [frames |-> <<>>, raised |-> TRUE]
    ELSE [frames |->
            <<"action">>
            \o (CASE cmd.action = "llm" ->
                        Repeat("llm_chunk", cmd.chunks)
                            \o (IF cmd.llm_ok THEN <<>> ELSE <<"error">>)
                  [] cmd.action = "n8n" -> <<"n8n_result">>
                  [] OTHER -> <<"instruction">>)
            \o (IF cmd.tts = "skip" THEN <<>> ELSE tts_frames(cmd.tts))
            \o <<"response_complete">>,
          raised |-> FALSE]

\* voice_ws around a handler: an exception leaving the handler is answered
\* with an error frame and ends the receive loop
voice_ws(kind, started, sent) ==
    [kind |-> kind, started |-> started,
     frames |-> IF sent.raised THEN sent.frames \o <<"error">> ELSE sent.frames,
     open |-> ~sent.raised]

\* the agentic_command messages
\* what an agentic_command carries: all it needs, or no "text", or neither
\* "file_path" nor "file_content"
Givens == {"all", "no text", "no file"}

AgenticCommands ==
    [given : Givens, req : OrchRequests,
     files_read : BOOLEAN, tts : TtsModes]

\* the activity frames orchestrate sends through on_activity
activity_frames(cmd) ==
    IF ~cmd.req.text_is_str THEN <<"activity">>
    ELSE <<"activity">> \o (IF cmd.files_read THEN <<"activity">> ELSE <<>>)
            \o <<"activity">>

\* _handle_agentic_command after its validation, given what orchestrate
\* returned
agentic_frames(cmd, response) ==
    activity_frames(cmd)
    \o <<"intent">>
    \o (IF response.result # None THEN <<"agent_result">> ELSE <<>>)
    \o (IF cmd.tts # "skip" /\ response.response_text # ""
        THEN tts_frames(cmd.tts) ELSE <<>>)
    \o <<"response_complete">>

\* a direct call of orchestrate
Orchestrate ==
    \E req \in OrchRequests :
        \E o \in {orchestrate(Store(conversations, active, disk, clock), req)} :
           /\ clock <= MaxCalls /\ o.store.clock <= MaxCalls + 1
           /\ conversations' = o.store.conversations
           /\ active' = o.store.active
           /\ disk' = o.store.disk
           /\ clock' = o.store.clock
           /\ lastMem' = MemCall(IF o.saved THEN "add_turn" ELSE "no_turn",
                                 o.store.active, <<>>)
           /\ orch' = [called |-> TRUE, failed |-> o.failed, response |-> o.response,
                       active_before |-> active,
                       before |-> IF active \in DOMAIN conversations
                                  THEN conversations[active].messages ELSE <<>>]
           /\ UNCHANGED <<ws, notReq>>

\* a text_command message arrives on the connection
TextCommand ==
    \E cmd \in TextCommands :
        /\ ws.open
        /\ cmd.action # "llm" => cmd.chunks = 0 /\ cmd.llm_ok
        /\ ws' = voice_ws("text_command", TRUE, _handle_transcript(cmd))
        /\ UNCHANGED <<orch, memVars, notReq>>

\* an agentic_command message arrives on the connection
AgenticCommand ==
    /\ ws.open
    /\ \/ \* validation: an error frame, nothing else
          /\ \E given \in Givens : given # "all"
          /\ ws' = [kind |-> "agentic_command", started |-> FALSE,
                    frames |-> <<"error">>, open |-> TRUE]
          /\ UNCHANGED <<orch, memVars>>
       \/ /\ clock <= MaxCalls
          /\ \E req \in OrchRequests :
             \E o \in {orchestrate(Store(conversations, active, disk, clock), req)} :
                /\ o.store.clock <= MaxCalls + 1
                /\ conversations' = o.store.conversations
                /\ active' = o.store.active
                /\ disk' = o.store.disk
                /\ clock' = o.store.clock
                /\ lastMem' = MemCall(IF o.saved THEN "add_turn" ELSE "no_turn",
                                      o.store.active, <<>>)
                /\ orch' = [called |-> TRUE, failed |-> o.failed,
                            response |-> o.response, active_before |-> active,
                            before |-> IF active \in DOMAIN conversations
                                       THEN conversations[active].messages
                                       ELSE <<>>]
                /\ \E files_read \in BOOLEAN, tts \in TtsModes :
                      ws' = [kind |-> "agentic_command", started |-> TRUE,
                             frames |-> agentic_frames(
                                 [given |-> "all", req |-> req,
                                  files_read |-> files_read, tts |-> tts],
                                 o.response),
                             open |-> TRUE]
    /\ UNCHANGED notReq

\* the client opens a new connection after the server closed the old one
Connect ==
    /\ ~ws.open
    /\ ws' = NoWs
    /\ UNCHANGED <<orch, memVars, notReq>>

\* ------------------------------------------------------------------------
\* Hybrid search (app/services/embedding_service.py)
\* ------------------------------------------------------------------------
\* scores are floats in the code; here they are counted in units of
\* 1/ScoreUnit, weights and cosine similarities in tenths
ScoreUnit == 6000

\* a keyword result: the dict of a Symbol
KeywordResult(name) == [name |-> name, file_path |-> "a.py", line |-> 1]

\* a SearchResult of the symbol index, cosine in tenths
SearchResult(name, cosine) ==
    [id |-> _generate_symbol_id(KeywordResult(name)), score |-> cosine]

\* rank_score = 1.0 - (i / (len(keyword_results) + 1)), in 600ths
rank_score(i, n) == (600 * (n + 1 - i)) \div (n + 1)

\* position of the entry of an id in the score map, 0 if it has none
RECURSIVE ScorePos(_, _, _)
ScorePos(scores, id, i) ==
    IF i > Len(scores) THEN 0
    ELSE IF scores[i].id = id THEN i
    ELSE ScorePos(scores, id, i + 1)

\* scores[id] = entry: a dict keeps the position of a key it already has
ScorePut(scores, entry) ==
    LET at == ScorePos(scores, entry.id, 1)
    IN IF at = 0 THEN Append(scores, entry) ELSE [scores EXCEPT ![at] = entry]

\* first loop of hybrid_search: keyword_results[:top_k] with rank scores
RECURSIVE AddKeywords(_, _, _, _, _)
AddKeywords(scores, keyword_results, i, top_k, keyword_weight) ==
    IF i >= Len(keyword_results) \/ i >= top_k THEN scores
    ELSE AddKeywords(
            ScorePut(scores,
                     [id |-> _generate_symbol_id(keyword_results[i + 1]),
                      score |-> rank_score(i, Len(keyword_results)) * keyword_weight,
                      source |-> "keyword"]),
            keyword_results, i + 1, top_k, keyword_weight)

\* second loop of hybrid_search: add or merge the semantic results
RECURSIVE AddSemantic(_, _, _)
AddSemantic(scores, semantic_results, semantic_weight) ==
    IF semantic_results = <<>> THEN scores
    ELSE LET result == Head(semantic_results)
             semantic_score == result.score * semantic_weight * 60
             at == ScorePos(scores, result.id, 1)
         IN AddSemantic(
                IF at # 0
                THEN [scores EXCEPT ![at].score = @ + semantic_score,
                                    ![at].source = "hybrid"]
                ELSE Append(scores, [id |-> result.id, score |-> semantic_score,
                                     source |-> "semantic"]),
                Tail(semantic_results), semantic_weight)

\* sorted(scores.values(), key=score, reverse=True): stable
RECURSIVE InsertByScore(_, _)
InsertByScore(sorted, entry) ==
    IF sorted = <<>> THEN <<entry>>
    ELSE IF Head(sorted).score < entry.score THEN <<entry>> \o sorted
    ELSE <<Head(sorted)>> \o InsertByScore(Tail(sorted), entry)

RECURSIVE SortByScore(_, _)
SortByScore(list, acc) ==
    IF list = <<>> THEN acc
    ELSE SortByScore(Tail(list), InsertByScore(acc, Head(list)))

\* list[:n]
Take(list, n) == SubSeq(list, 1, IF n < Len(list) THEN n ELSE Len(list))

\* hybrid_search(query, keyword_results, top_k, keyword_weight,
\* semantic_weight), c.semantic being what the symbol index holds for the
\* query, best first; search_symbols is asked for top_k * 2 of them
hybrid_search(c) ==
    LET semantic_results == Take(c.semantic, c.top_k * 2)
        keyword_scores == AddKeywords(<<>>, c.keyword_results, 0, c.top_k,
                                      c.keyword_weight)
        scores == AddSemantic(keyword_scores, semantic_results, c.semantic_weight)
    IN Take(SortByScore(scores, <<>>), c.top_k)

\* the symbols of the modelled project
HybridNames == {"A", "B", "C", "D"}

\* most keyword results of one call
MaxKeywords == 3
\* most semantic results of one call
MaxSemantic == 2

NoRepeat(list) == \A i, j \in 1..Len(list) : i # j => list[i] # list[j]

\* keyword result lists: distinct symbols in rank order
KeywordLists ==
    UNION {{[i \in 1..n |-> KeywordResult(names[i])] :
                names \in {l \in [1..n -> HybridNames] : NoRepeat(l)}} :
           n \in 0..MaxKeywords}

\* semantic result lists: distinct symbols, highest cosine first
SemanticLists ==
    UNION {{[i \in 1..n |-> SearchResult(l[i][1], l[i][2])] :
                l \in {x \in [1..n -> HybridNames \X {7, 9}] :
                          /\ NoRepeat([i \in 1..n |-> x[i][1]])
                          /\ \A i \in 1..(n - 1) : x[i][2] >= x[i + 1][2]}} :
           n \in 0..MaxSemantic}

\* the calls of hybrid_search under study: top_k 10 is the default of the
\* method, 2 a top_k below the length of the keyword list (the orchestrator
\* asks for 10 keyword results and top_k = 8)
HybridCalls ==
    [keyword_results : KeywordLists, semantic : SemanticLists, top_k : {2, 10},
     weights : {<<5, 5>>, <<4, 6>>}]

HybridCall(c) ==
    [keyword_results |-> c.keyword_results, semantic |-> c.semantic,
     top_k |-> c.top_k, keyword_weight |-> c.weights[1],
     semantic_weight |-> c.weights[2]]

NoRet == [done |-> FALSE, value |-> <<>>]

\* EmbeddingService(): an empty symbol index; the model is loaded lazily, and
\* not at all where sentence-transformers is not installed
EmbInit ==
    /\ emb = {}
    /\ embedder \in BOOLEAN

Init ==
    /\ IdxInit
    /\ WatchInit
    /\ ConcInit
    /\ emb = {}
    /\ embedder = FALSE
    /\ MemInit
    /\ ReqInit /\ StoreInit /\ PullInit /\ DebInit
    /\ FunInit
    /\ max_tokens = DefaultMaxTokens
    /\ budget = ContextBudget
    /\ items = <<>>
    /\ assembled = NoAssembly

AsmNext == AddItem \/ Clear \/ Assemble

AsmStart ==
    /\ IdxInit /\ WatchInit /\ ConcInit /\ emb = {} /\ embedder = FALSE
    /\ MemInit /\ ReqInit /\ StoreInit /\ PullInit /\ DebInit /\ FunInit /\ AsmInit

AsmSpec == AsmStart /\ [][AsmNext]_vars

\* tokens of the included items of a category
RECURSIVE TokensIn(_, _)
TokensIn(list, category) ==
    IF list = <<>> THEN 0
    ELSE (IF Head(list).category = category THEN estimate_tokens(Head(list).content)
          ELSE 0) + TokensIn(Tail(list), category)

\* estimated tokens of all included contents
RECURSIVE TokensOf(_)
TokensOf(list) ==
    IF list = <<>> THEN 0
    ELSE estimate_tokens(Head(list).content) + TokensOf(Tail(list))

\* C9: for every assemble() call, total_tokens (the sum of the estimated
\* tokens of all included contents) is at most max_tokens.
C9_TotalWithinMax ==
    assembled.called =>
        /\ assembled.total_tokens <= max_tokens
        /\ TokensOf(assembled.included_items) <= max_tokens

\* C10: for every assemble() call and every category, the tokens of the
\* items included in that category sum to at most the category's budget.
C10_CategoryWithinBudget ==
    assembled.called =>
        \A c \in Categories :
            TokensIn(assembled.included_items, c) <= _get_category_budget(budget, c)

\* the sources of the items of a list
SourcesOf(list) == {list[i].source : i \in 1..Len(list)}

\* C11: for every assemble() call, the union of items_included,
\* items_truncated and items_excluded equals the set of sources of all items
\* added to the manager, whatever arguments assemble() is given.
C11_ListsCoverItems ==
    assembled.called =>
        SourcesOf(assembled.included_items) \cup Range(assembled.items_truncated)
            \cup Range(assembled.items_excluded) = SourcesOf(items)

ConcNext ==
    \/ \E t \in ThreadIds : BeginIndexFile(t)
    \/ \E t \in ThreadIds : ReadOld(t)
    \/ \E t \in ThreadIds : RemoveStep(t)
    \/ \E t \in ThreadIds : PlaceFile(t)
    \/ \E t \in ThreadIds : InsertStep(t)
    \/ \E t \in ThreadIds : FinishIndexFile(t)
    \/ ReadSymbol
    \/ ReadFile

ConcSpec == Init /\ [][ConcNext]_vars

\* C12: a reader running concurrently with an index_file(p) executed on the
\* watcher thread observes either the complete pre-replace or the complete
\* post-replace state for p, never a state in between.
C12_ReaderSeesNoHybrid == ~seen.hybrid

\* C13: writes to the index are serialized: at most one index write is in
\* progress at any time.
C13_WritesSerialized == Cardinality({t \in ThreadIds : InWrite(t)}) <= 1

\* C14: once the debouncer has dispatched a modified change of a path, every
\* request read that starts after the dispatch observes the re-indexed
\* symbols of the path.
C14_ReadAfterDispatchIsFresh == ~seen.stale

WatchNext ==
    OnEvent \/ Tick \/ TimerExpire \/ FlushSnapshot \/ FlushDispatch \/ FlushDone

WatchSpec == Init /\ [][WatchNext]_vars

\* no timer waits and no timer thread is flushing
Quiet == timer = -1 /\ flushers = <<>>

\* C7: given N >= 1 modified events on one path, each less than 500 ms after
\* the previous one, and no other events, the change handler is invoked for
\* that path exactly once: never more than once, and once when the timers
\* are through.
C7_BurstHandledOnce ==
    burst /\ nEvents >= 1 =>
        \A p \in CodePaths :
            /\ handled[p] <= 1
            /\ Quiet => handled[p] = (IF age[p] = -1 THEN 0 ELSE 1)

\* C7 witness: a burst of several events was handled and the timers are through
C7_Witness ==
    burst /\ nEvents >= 2 /\ Quiet /\ \E p \in CodePaths : handled[p] = 1

\* C8: a change for path p is never handed to the handler while an event for
\* p was queued less than 500 ms before.
C8_DispatchAfterDelay == ~early

\* C15: coalescing is per path: a pending change for path p is dispatched once
\* 500 ms have elapsed since the last event on p, and events on other paths
\* do not postpone it (no change is still pending, behind a timer that has
\* time left, when the last event on its path is 500 ms old).
C15_WindowIsPerPath ==
    \A p \in CodePaths :
        PendingPos(pending, p) # 0 /\ age[p] >= DebounceDelayMs => timer <= 0

\* C16: after the watcher processes a move of a file from old to new, the
\* index holds no by_file entry and no Symbol for old, and holds the symbols
\* of new.
C16_MoveReplacesOldPath ==
    lastOp.op = "moved" =>
        /\ lastOp.old_path \notin DOMAIN index.by_file
        /\ \A sym \in Rows(index.by_name) \cup Rows(index.by_kind) :
              sym.file_path # lastOp.old_path
        /\ lastOp.path \in DOMAIN index.by_file
        /\ Range(index.by_file[lastOp.path].symbols) \subseteq Rows(index.by_name)

\* the watcher's change handler, with and without an embedding model
EmbStart ==
    /\ IdxInit
    /\ WatchInit
    /\ ConcInit
    /\ EmbInit
    /\ MemInit
    /\ ReqInit /\ StoreInit /\ PullInit /\ DebInit
    /\ FunInit
    /\ max_tokens = DefaultMaxTokens
    /\ budget = ContextBudget
    /\ items = <<>>
    /\ assembled = NoAssembly

\* the handler on files whose only definition is f
HandleFChange == HandleChangeOf(Changes, ConcContents \cup {Unreadable})

EmbSpec == EmbStart /\ [][HandleFChange]_vars

\* the ids of the Symbols by_file holds for a path
IndexedIds(idx, path) ==
    {_generate_symbol_id(sym) : sym \in Range(get_file_symbols(idx, path).symbols)}

\* C17: after the watcher has processed a change to a file, the symbol
\* embedding index holds an item for each Symbol currently indexed for that
\* file and no item for a Symbol that no longer exists (removed, shifted to
\* another line, file deleted or moved away).
C17_EmbeddingsFollowIndex ==
    embedder /\ lastOp.op \in {"index_file", "deleted", "moved"} =>
        \A p \in {lastOp.path, lastOp.old_path} \cap CodePaths :
            {id \in emb : id[1] = p} = IndexedIds(index, p)

MemNext ==
    CreateConversation \/ AddMessage \/ SetActiveConversation
        \/ DeleteConversation \/ ClearAll \/ Restart

MemSpec == Init /\ [][MemNext]_vars

\* ------------------------------------------------------------------------
\* Properties of the conversation memory (MemSpec)
\* ------------------------------------------------------------------------
\* what the reload is compared on: ids, titles and the message sequences
\* with role, content, timestamp and metadata
Tree(convs) ==
    [id \in DOMAIN convs |->
        [id |-> convs[id].id, title |-> convs[id].title,
         messages |-> convs[id].messages]]

\* add_message returned normally
Added == lastMem.op = "add_message"

\* add_message returned after its history went over the cap
Trimmed == Added /\ Len(lastMem.before) > MaxHistory

\* C18: after add_message returns, a fresh store built from the same
\* storage directory holds conversations equal to the in-memory ones (ids,
\* titles, message sequences), also when the call trimmed the history.
C18_ReloadEqualsMemory ==
    Added => Tree(_load_from_disk(disk)) = Tree(conversations)

\* add_message trimmed a history that holds a message with metadata
C18_Witness ==
    /\ Trimmed
    /\ \E i \in 1..Len(conversations[lastMem.conv].messages) :
           conversations[lastMem.conv].messages[i].metadata # EmptyDict

\* C19: after every add_message returns, the target conversation holds at
\* most max_history_length messages in memory, whatever the mix of roles.
C19_HistoryWithinCap ==
    Added => Len(conversations[lastMem.conv].messages) <= MaxHistory

\* the last n elements of a list (all of it when it is shorter)
LastN(list, n) ==
    IF n <= 0 THEN <<>>
    ELSE IF n >= Len(list) THEN list
    ELSE SubSeq(list, Len(list) - n + 1, Len(list))

IsNotSystem(m) == ~IsSystem(m)

\* C20: when add_message pushes a conversation over the cap, the retained
\* messages are exactly every system message plus the most recent
\* non-system messages filling the rest of the cap, each appearing once.
C20_TrimKeepsSystemAndRecent ==
    Trimmed =>
        LET kept == conversations[lastMem.conv].messages
            system_msgs == SelectSeq(lastMem.before, IsSystem)
            others == SelectSeq(lastMem.before, IsNotSystem)
        IN /\ Range(kept) = Range(system_msgs)
                  \cup Range(LastN(others, MaxHistory - Len(system_msgs)))
           /\ \A i, j \in 1..Len(kept) : i # j => kept[i] # kept[j]

\* C21: the active conversation id is unset or the id of a conversation
\* that currently exists, after create_conversation, delete_conversation,
\* clear_all and a set_active_conversation naming an unknown id.
C21_ActiveExists == active = NoId \/ active \in DOMAIN conversations

\* a set_active_conversation naming an unknown id was refused while
\* conversations exist and none of them is active
C21_Witness ==
    /\ lastMem.op = "set_active_conversation_refused"
    /\ active = NoId
    /\ conversations # EmptyDict

OrchNext == Orchestrate \/ CreateConversation \/ DeleteConversation

OrchSpec == Init /\ [][OrchNext]_vars

WsNext == TextCommand \/ AgenticCommand \/ Connect

WsSpec == Init /\ [][WsNext]_vars

\* ------------------------------------------------------------------------
\* Properties of the request handlers (WsSpec, OrchSpec)
\* ------------------------------------------------------------------------
\* how many frames of a type a request was answered with
CountFrames(frames, type) == Cardinality({i \in 1..Len(frames) : frames[i] = type})

\* C22: every text_command or agentic_command request the server starts
\* processing produces exactly one response_complete frame, also when the
\* context gatherer, intent detection, an intent stage or an external call
\* raises.
C22_OneResponseComplete ==
    ws.started => CountFrames(ws.frames, "response_complete") = 1

\* C23: if any orchestrator stage fails (context gathering included), the
\* response returned for the request carries a non-empty error field.
C23_FailureSetsError ==
    orch.called /\ orch.failed # {} => orch.response.error \notin {None, ""}

\* the frame types the per-request sequence is made of
IsSequenceFrame(frame) ==
    frame \in {"action", "llm_chunk", "tts_start", "binary", "tts_done",
               "response_complete"}

\* C24: for each text request the handler answered, the frames sent are
\* action, then zero or more llm_chunk, then optionally tts_start, binary
\* audio, tts_done, then response_complete as the last frame, including
\* when the LLM or TTS call fails (frames of other types left aside).
C24_FrameOrder ==
    ws.kind = "text_command" /\ ws.open =>
        \E n \in 0..Len(ws.frames) :
            \E audio \in {<<>>, <<"tts_start", "binary", "tts_done">>} :
                SelectSeq(ws.frames, IsSequenceFrame)
                    = <<"action">> \o Repeat("llm_chunk", n) \o audio
                        \o <<"response_complete">>

\* C25: each completed orchestrated request appends exactly one user
\* message followed by exactly one assistant message to the conversation
\* that is active at that moment, whatever the intent and the response.
C25_TurnAppended ==
    orch.called /\ orch.failed = {} /\ lastMem.op \in {"add_turn", "no_turn"} =>
        LET target == IF orch.active_before # NoId THEN orch.active_before ELSE active
            msgs == IF target \in DOMAIN conversations
                    THEN conversations[target].messages ELSE <<>>
            n == Len(msgs)
        IN /\ n >= 2
           /\ msgs[n - 1].role = "user"
           /\ msgs[n].role = "assistant"
           /\ msgs[n].content = orch.response.response_text
           /\ Len(orch.before) + 2 <= MaxHistory =>
                  SubSeq(msgs, 1, n - 2) = orch.before

\* ------------------------------------------------------------------------
\* Functions studied on their own: the call is drawn at the start, one step
\* applies the function
\* ------------------------------------------------------------------------
\* the state of everything but the function under study
RestInit ==
    /\ IdxInit
    /\ WatchInit
    /\ ConcInit
    /\ emb = {}
    /\ embedder = FALSE
    /\ MemInit
    /\ ReqInit /\ StoreInit /\ PullInit /\ DebInit
    /\ max_tokens = DefaultMaxTokens
    /\ budget = ContextBudget
    /\ items = <<>>
    /\ assembled = NoAssembly

HybStart ==
    /\ RestInit
    /\ call \in HybridCalls
    /\ ret = NoRet

HybridSearch ==
    /\ ~ret.done
    /\ ret' = [done |-> TRUE, value |-> hybrid_search(HybridCall(call))]
    /\ UNCHANGED <<call, notFun>>

HybSpec == HybStart /\ [][HybridSearch]_vars

\* the entry of a symbol in the returned list, 0 if it is not returned
Returned(name) == ScorePos(ret.value, _generate_symbol_id(KeywordResult(name)), 1)

\* position of a symbol in the keyword result list, 0 if it is not there
RECURSIVE KeywordPos(_, _, _)
KeywordPos(list, name, i) ==
    IF i > Len(list) THEN 0
    ELSE IF list[i].name = name THEN i
    ELSE KeywordPos(list, name, i + 1)

\* cosine of a symbol in the semantic result list, -1 if it is not there
CosineOf(list, name) ==
    LET hits == {i \in 1..Len(list) :
                    list[i].id = _generate_symbol_id(KeywordResult(name))}
    IN IF hits = {} THEN -1 ELSE list[CHOOSE i \in hits : TRUE].score

\* C26: every symbol whose id occurs both in the keyword result list and in
\* the semantic result list is, where hybrid_search returns it, returned
\* with source 'hybrid' and score w_k * rank score + w_s * cosine, for
\* keyword lists of any length.
C26_OverlapIsHybrid ==
    ret.done =>
        \A name \in HybridNames :
            LET k == KeywordPos(call.keyword_results, name, 1)
                cosine == CosineOf(call.semantic, name)
                at == Returned(name)
            IN k # 0 /\ cosine >= 0 /\ at # 0 =>
                  /\ ret.value[at].source = "hybrid"
                  /\ ret.value[at].score
                        = call.weights[1] * rank_score(k - 1, Len(call.keyword_results))
                            + call.weights[2] * cosine * 60

\* keyword results [A, B, C], semantic results [(B, 0.9), (D, 0.7)],
\* w_k = w_s = 0.5, default top_k
WorkedCall ==
    [keyword_results |-> <<KeywordResult("A"), KeywordResult("B"), KeywordResult("C")>>,
     semantic |-> <<SearchResult("B", 9), SearchResult("D", 7)>>,
     top_k |-> 10, weights |-> <<5, 5>>]

\* C27: with keyword results [A, B, C], semantic results [(B, 0.9),
\* (D, 0.7)] and w_k = w_s = 0.5, hybrid_search returns the symbols in the
\* relative order B, A, C, D.
C27_WorkedOrder ==
    ret.done /\ call = WorkedCall =>
        /\ \A name \in HybridNames : Returned(name) # 0
        /\ Returned("B") < Returned("A")
        /\ Returned("A") < Returned("C")
        /\ Returned("C") < Returned("D")

\* ------------------------------------------------------------------------
\* The coding context of a selection, the current file and the project tree
\* ------------------------------------------------------------------------
\* what a text of a given length may look like to estimate_tokens and
\* truncate_to_tokens: prose or code, with or without brackets, in lines of
\* 80 characters or in one line
CodingTexts(len) ==
    {Text(len, code, brk, width) :
        code \in BOOLEAN, brk \in BOOLEAN, width \in {0, 80}}

\* the three items _add_file_context adds for a 3000-character selection, a
\* 5000-character current file and a 2000-character project structure
CodingItems ==
    {<<ContextItem(s, PriorityOf("selection"), "selection", "selection", 0),
       ContextItem(f, PriorityOf("file"), "file", "current_file", 0),
       ContextItem(p, PriorityOf("project"), "project", "project_structure", 0)>> :
        s \in CodingTexts(3000), f \in CodingTexts(5000), p \in CodingTexts(2000)}

\* the orders in which the three items may have been added
Orders == {o \in [1..3 -> 1..3] : Range(o) = 1..3}

\* ContextWindowManager(max_tokens=8000, budget=ContextBudget(selection=2000,
\* ..., project=200)) holding the three items
CodingStart ==
    /\ IdxInit
    /\ WatchInit
    /\ ConcInit
    /\ emb = {}
    /\ embedder = FALSE
    /\ MemInit
    /\ ReqInit /\ StoreInit /\ PullInit /\ DebInit
    /\ FunInit
    /\ max_tokens = DefaultMaxTokens
    /\ budget = CodingBudget
    /\ items \in {[i \in 1..3 |-> its[o[i]]] : its \in CodingItems, o \in Orders}
    /\ assembled = NoAssembly

\* build_for_coding: return manager.assemble(agent_type="coding")
AssembleCoding ==
    /\ ~assembled.called
    /\ assembled' = assemble(items, max_tokens, budget, {})
    /\ UNCHANGED <<max_tokens, budget, items, notAsm>>

CodingSpec == CodingStart /\ [][AssembleCoding]_vars

\* the item with this source as the manager holds it
AddedAs(source) ==
    items[CHOOSE i \in 1..Len(items) : items[i].source = source]

\* C28: assembling a 3000-character selection (priority 100), a
\* 5000-character current file (priority 60) and a 2000-character project
\* tree (priority 30) with max_tokens 8000 and the coding budgets includes
\* the selection whole, truncates the current file and lists its source in
\* items_truncated, includes at most 200 tokens of the project tree, and
\* reports total_tokens of at most 8000.
C28_CodingScenario ==
    assembled.called =>
        /\ AddedAs("selection") \in Range(assembled.included_items)
        /\ "current_file" \in Range(assembled.items_truncated)
        /\ UsageOf(assembled.category_usage, "project") <= CodingProject
        /\ assembled.total_tokens <= DefaultMaxTokens

\* ------------------------------------------------------------------------
\* Smart context: find_relevant_files
\* ------------------------------------------------------------------------
\* A registered file is described by what the scoring loop reads of it:
\*   in_categories    detect_file_category's category is one of the query's
\*   confidence       detect_file_category's confidence, in tenths
\*   entity           where the first matching entity of the query matches:
\*                    "filename", "path" or "none"
\*   similarity       cosine of query and file embedding, in tenths
\*   keyword_matches  entities of the query found in the content
\*   excluded         filename in EXCLUDE_FILES
\* Scores are counted in units of 0.0001.
MaxFiles == 2

Entities == {"filename", "path", "none"}

RegisteredFiles ==
    [in_categories : BOOLEAN, confidence : {5, 8}, entity : Entities,
     similarity : {-5, 9}, keyword_matches : {0, 4}, excluded : BOOLEAN]

Min(a, b) == IF a < b THEN a ELSE b
Max(a, b) == IF a < b THEN b ELSE a

\* the body of the loop over registered_files: the score of one file;
\* embedded says whether the query could be embedded
file_score(file, embedded) ==
    LET category == IF file.in_categories THEN 400 * file.confidence ELSE 0
        entity == IF file.entity = "filename" THEN 2500
                  ELSE IF file.entity = "path" THEN 1500
                  ELSE 0
        semantic_score == IF embedded THEN Max(0, file.similarity) * 350 ELSE 0
        content == IF file.keyword_matches > 0
                   THEN Min(1500, file.keyword_matches * 500) ELSE 0
        score == category + entity + semantic_score + content
    IN IF file.excluded THEN score \div 10 ELSE score

\* scored_files before the sort: the files with score >= min_score, in the
\* order of the registry
RECURSIVE ScoredFiles(_, _, _, _)
ScoredFiles(files, i, embedded, min_score) ==
    IF i > Len(files) THEN <<>>
    ELSE LET score == file_score(files[i], embedded)
         IN (IF score >= min_score
             THEN <<[path |-> i, score |-> score]>> ELSE <<>>)
            \o ScoredFiles(files, i + 1, embedded, min_score)

\* find_relevant_files(query, max_files, min_score): path and score of the
\* RelevantFile objects returned
find_relevant_files(c) ==
    Take(SortByScore(ScoredFiles(c.registered_files, 1, c.embedded, c.min_score),
                     <<>>),
         c.max_files)

\* the registry holds up to MaxFiles files; max_files and min_score are the
\* defaults (8, 0.3) or what get_smart_context_files passes (8, 0.25), and a
\* caller asking for the single best file
RelevantCalls ==
    [registered_files : UNION {[1..n -> RegisteredFiles] : n \in 0..MaxFiles},
     embedded : BOOLEAN, max_files : {1, 8}, min_score : {2500, 3000}]

RelStart ==
    /\ RestInit
    /\ call \in RelevantCalls
    /\ ret = NoRet

FindRelevantFiles ==
    /\ ~ret.done
    /\ ret' = [done |-> TRUE, value |-> find_relevant_files(call)]
    /\ UNCHANGED <<call, notFun>>

RelSpec == RelStart /\ [][FindRelevantFiles]_vars

\* C29: the list find_relevant_files returns is strictly descending by
\* score: each returned file has a score strictly greater than the file
\* that follows it, for every candidate file set.
C29_StrictlyDescending ==
    ret.done =>
        \A i \in 1..(Len(ret.value) - 1) :
            ret.value[i].score > ret.value[i + 1].score

\* ------------------------------------------------------------------------
\* estimate_tokens on strings
\* ------------------------------------------------------------------------
\* a string is a sequence of characters
Chars(s) == {s[i] : i \in 1..Len(s)}

\* ind in text
Contains(text, ind) ==
    \E i \in 1..(Len(text) - Len(ind) + 1) :
        SubSeq(text, i, i + Len(ind) - 1) = ind

\* code_indicators of estimate_tokens
code_indicators ==
    {<<"{">>, <<"}">>, <<"(">>, <<")">>,
     <<"d", "e", "f", " ">>,
     <<"f", "u", "n", "c", "t", "i", "o", "n", " ">>,
     <<"c", "l", "a", "s", "s", " ">>,
     <<"i", "m", "p", "o", "r", "t", " ">>,
     <<"c", "o", "n", "s", "t", " ">>,
     <<"l", "e", "t", " ">>}

\* any(indicator in text for indicator in code_indicators)
is_code(text) == \E ind \in code_indicators : Contains(text, ind)

\* any(c in text for c in "{}()[];")
has_bracket(text) == Chars(text) \cap {"{", "}", "(", ")", "[", "]", ";"} # {}

\* what the two text functions read of a string without newlines
Describe(s) == Text(Len(s), is_code(s), has_bracket(s), 0)

\* the strings of at most n characters over an alphabet
StringsOver(alphabet, n) == UNION {[1..k -> alphabet] : k \in 0..n}

MaxPrefix == 6
MaxSuffix == 2

\* the strings a and b are drawn from: prose letters and a bracket, and the
\* pieces of the keyword "def " that make an indicator only when joined
Keyword == <<"d", "e", "f", " ">>
PrefixStrings ==
    StringsOver({"x", "("}, MaxPrefix)
        \cup {SubSeq(Keyword, 1, k) : k \in 1..Len(Keyword)}
SuffixStrings ==
    StringsOver({"x", "("}, MaxSuffix)
        \cup {SubSeq(Keyword, k, Len(Keyword)) : k \in 1..Len(Keyword)}

EstStart ==
    /\ RestInit
    /\ call \in [a : PrefixStrings, b : SuffixStrings]
    /\ ret = NoRet

\* estimate_tokens(a) and estimate_tokens(a + b)
EstimateTokens ==
    /\ ~ret.done
    /\ ret' = [done |-> TRUE,
               value |-> <<estimate_tokens(Describe(call.a)),
                           estimate_tokens(Describe(call.a \o call.b))>>]
    /\ UNCHANGED <<call, notFun>>

EstSpec == EstStart /\ [][EstimateTokens]_vars

\* C30: estimate_tokens(a + b) >= estimate_tokens(a) for all strings a and
\* b: appending text never lowers the token estimate, also when the
\* appended text turns prose into code.
C30_AppendNeverLowers == ret.done => ret.value[2] >= ret.value[1]

\* a prose string of at least one token became code by what was appended
C30_Witness ==
    /\ ret.done
    /\ ~is_code(call.a)
    /\ is_code(call.a \o call.b)
    /\ ret.value[1] > 0

\* ------------------------------------------------------------------------
\* get_call_chain: the recursive traversal of the call graph, one step per
\* call, loop iteration or return
\* ------------------------------------------------------------------------
ChainNames == {"a", "b", "c"}

\* deepest max_depth asked for (the default is 3)
MaxDepth == 3

\* a traversal that passes its own depth on
SameDepth(depth) == depth

\* the depth argument of the recursive call
Deeper(depth) == depth - 1

\* the frame of one _traverse_callers / _traverse_callees call past its
\* guard: the names its loop has not visited yet and the entries it built
Frame(name, depth, todo) ==
    [name |-> name, depth |-> depth, todo |-> todo, result |-> <<>>]

\* the first traversal get_call_chain runs for a direction
FirstPhase(direction) == IF direction = "callees" THEN "callees" ELSE "callers"

\* the traversal after this one ("end": the dict is returned)
NextPhase(phase, direction) ==
    IF phase = "callers" /\ direction = "both" THEN "callees" ELSE "end"

\* get_call_chain before its first traversal: result = {"symbol": ...,
\* "callers": [], "callees": []}
ChainBegin(direction) ==
    [phase |-> FirstPhase(direction), visited |-> {}, stack |-> <<>>,
     callers |-> <<>>, callees |-> <<>>]

\* the graph a traversal walks: reverse_call_graph for callers, call_graph
\* for callees; .get(name, set())
GraphOf(phase) ==
    IF phase = "callers" THEN call.reverse_call_graph ELSE call.call_graph
Neighbours(phase, name) == DictGet(GraphOf(phase), name, {})

\* {(callee, caller)} of a call graph, as a dict of sets
Reverse(graph) ==
    [n \in {m \in ChainNames : \E k \in DOMAIN graph : m \in graph[k]} |->
        {k \in DOMAIN graph : n \in graph[k]}]

\* a call graph over the names, cycles and self calls included (c calls
\* nothing or a); find_symbol finds every name or every name but "c"
ChainCalls ==
    {[call_graph |-> g, reverse_call_graph |-> Reverse(g), defined |-> d,
      symbol_name |-> "a", direction |-> dir, max_depth |-> depth] :
        g \in {h \in [ChainNames -> SUBSET ChainNames] : h["c"] \subseteq {"a"}},
        d \in {ChainNames, ChainNames \ {"c"}},
        dir \in {"callers", "callees", "both"},
        depth \in 0..MaxDepth}

ChainStart ==
    /\ RestInit
    /\ call \in ChainCalls
    /\ ret = [done |-> FALSE, value |-> ChainBegin(call.direction)]

\* the state after a traversal has ended with this result
Ended(t, result) ==
    LET next == NextPhase(t.phase, call.direction)
    IN [done |-> next = "end",
        value |-> [t EXCEPT !.phase = next, !.visited = {}, !.stack = <<>>,
                            ![t.phase] = result]]

\* get_call_chain calls _traverse_callers / _traverse_callees(symbol_name,
\* set(), max_depth)
ChainEnter ==
    LET t == ret.value
    IN /\ ~ret.done
       /\ t.stack = <<>>
       /\ ret' = IF call.max_depth <= 0 THEN Ended(t, <<>>)
                 ELSE [ret EXCEPT
                         !.value.visited = {call.symbol_name},
                         !.value.stack =
                            <<Frame(call.symbol_name, call.max_depth,
                                    Neighbours(t.phase, call.symbol_name))>>]
       /\ UNCHANGED <<call, notFun>>

\* one iteration of the for loop of the innermost call: an undefined name
\* is skipped; a name at depth 0 or already visited gets an empty subtree;
\* any other name is marked visited and traversed
ChainVisit ==
    LET t == ret.value
        n == Len(t.stack)
    IN /\ ~ret.done
       /\ n > 0
       /\ \E c \in t.stack[n].todo :
            LET f == [t.stack[n] EXCEPT !.todo = @ \ {c}]
                depth == Deeper(f.depth)
            IN ret' =
                 IF c \notin call.defined
                 THEN [ret EXCEPT !.value.stack[n] = f]
                 ELSE IF depth <= 0 \/ c \in t.visited
                 THEN [ret EXCEPT !.value.stack[n] =
                         [f EXCEPT !.result = Append(@, [name |-> c, sub |-> <<>>])]]
                 ELSE [ret EXCEPT
                         !.value.visited = @ \cup {c},
                         !.value.stack =
                            Append([t.stack EXCEPT ![n] = f],
                                   Frame(c, depth, Neighbours(t.phase, c)))]
       /\ UNCHANGED <<call, notFun>>

\* the innermost call returns its result: to the loop of its caller, which
\* appends the entry, or to get_call_chain
ChainReturn ==
    LET t == ret.value
        n == Len(t.stack)
    IN /\ ~ret.done
       /\ n > 0
       /\ t.stack[n].todo = {}
       /\ ret' = IF n = 1 THEN Ended(t, t.stack[n].result)
                 ELSE [ret EXCEPT !.value.stack =
                         [SubSeq(t.stack, 1, n - 1) EXCEPT ![n - 1].result =
                            Append(@, [name |-> t.stack[n].name,
                                       sub |-> t.stack[n].result])]]
       /\ UNCHANGED <<call, notFun>>

ChainNext == ChainEnter \/ ChainVisit \/ ChainReturn

ChainSpec == ChainStart /\ [][ChainNext]_vars

\* every call and every return is eventually executed
ChainFairSpec == ChainSpec /\ WF_vars(ChainNext)

\* levels of nesting of a list of entries
RECURSIVE Nesting(_)
Nesting(entries) ==
    IF entries = <<>> THEN 0
    ELSE LET rest == Nesting(Tail(entries))
             here == 1 + Nesting(Head(entries).sub)
         IN IF here > rest THEN here ELSE rest

\* the result nests no deeper than max_depth
ChainWithinDepth ==
    /\ Nesting(ret.value.callers) <= call.max_depth
    /\ Nesting(ret.value.callees) <= call.max_depth

\* C31: get_call_chain(name, direction, max_depth) terminates on every call
\* graph, cyclic and self-recursive ones included, and its result never
\* nests deeper than max_depth levels.
C31_ChainTerminatesWithinDepth ==
    /\ <>ret.done
    /\ [](ret.done => ChainWithinDepth)

\* get_call_chain returned for a graph in which a calls itself and b, and b
\* calls a, with entries nested max_depth deep
C31_Witness ==
    /\ ret.done
    /\ call.direction = "both"
    /\ call.call_graph["a"] = {"a", "b"}
    /\ "a" \in call.call_graph["b"]
    /\ call.max_depth = 2
    /\ Nesting(ret.value.callees) = 2

\* ------------------------------------------------------------------------
\* Intent detection
\* ------------------------------------------------------------------------
\* A transcript (lower-cased) is a sequence of words and a keyword or phrase
\* is one too; "phrase in transcript" is Contains on the words.
\* INTENT_MAP, in the order of the dict
INTENT_MAP ==
    <<<<<<"create">>, "coding">>,
      <<<<"write">>, "coding">>,
      <<<<"add">>, "coding">>,
      <<<<"implement">>, "coding">>,
      <<<<"refactor">>, "coding">>,
      <<<<"generate">>, "coding">>,
      <<<<"make">>, "coding">>,
      <<<<"build">>, "coding">>,
      <<<<"insert">>, "coding">>,
      <<<<"delete">>, "coding">>,
      <<<<"remove">>, "coding">>,
      <<<<"change">>, "coding">>,
      <<<<"modify">>, "coding">>,
      <<<<"update">>, "coding">>,
      <<<<"fix">>, "debug">>,
      <<<<"debug">>, "debug">>,
      <<<<"error">>, "debug">>,
      <<<<"bug">>, "debug">>,
      <<<<"why">>, "debug">>,
      <<<<"broken">>, "debug">>,
      <<<<"crash">>, "debug">>,
      <<<<"exception">>, "debug">>,
      <<<<"trace">>, "debug">>,
      <<<<"issue">>, "debug">>,
      <<<<"explain">>, "explain">>,
      <<<<"what", "does">>, "explain">>,
      <<<<"how", "does">>, "explain">>,
      <<<<"review">>, "explain">>,
      <<<<"understand">>, "explain">>,
      <<<<"tell", "me">>, "explain">>,
      <<<<"describe">>, "explain">>,
      <<<<"email">>, "workflow">>,
      <<<<"notify">>, "workflow">>,
      <<<<"slack">>, "workflow">>,
      <<<<"github">>, "workflow">>,
      <<<<"remind">>, "workflow">>,
      <<<<"calendar">>, "workflow">>,
      <<<<"schedule">>, "workflow">>,
      <<<<"plan">>, "plan">>,
      <<<<"step", "by", "step">>, "plan">>,
      <<<<"multiple", "files">>, "plan">>,
      <<<<"across", "files">>, "plan">>,
      <<<<"entire">>, "plan">>,
      <<<<"whole", "project">>, "plan">>,
      <<<<"restructure">>, "plan">>,
      <<<<"migrate">>, "plan">>>>

\* INTENT_MAP.get(key, default)
RECURSIVE IntentGet(_, _, _)
IntentGet(key, default, i) ==
    IF i > Len(INTENT_MAP) THEN default
    ELSE IF INTENT_MAP[i][1] = key THEN INTENT_MAP[i][2]
    ELSE IntentGet(key, default, i + 1)

multi_word_phrases ==
    <<<<"what", "does">>, <<"how", "does">>, <<"tell", "me">>,
      <<"create", "issue">>, <<"github", "issue">>>>

\* the loop over multi_word_phrases: the intent returned, None if no phrase
\* is in the transcript
RECURSIVE PhraseIntent(_, _)
PhraseIntent(transcript, i) ==
    IF i > Len(multi_word_phrases) THEN None
    ELSE IF Contains(transcript, multi_word_phrases[i])
    THEN IntentGet(<<Head(multi_word_phrases[i])>>, "chat", 1)
    ELSE PhraseIntent(transcript, i + 1)

\* the loop over INTENT_MAP.items(), "chat" past its end
RECURSIVE KeywordIntent(_, _)
KeywordIntent(transcript, i) ==
    IF i > Len(INTENT_MAP) THEN "chat"
    ELSE IF Contains(transcript, INTENT_MAP[i][1]) THEN INTENT_MAP[i][2]
    ELSE KeywordIntent(transcript, i + 1)

ExplicitModes == {"coding", "debug", "workflow", "explain", "plan"}

\* detect_intent(transcript, explicit_mode)
detect_intent(transcript, explicit_mode) ==
    IF explicit_mode # "auto" /\ explicit_mode \in ExplicitModes
    THEN explicit_mode
    ELSE LET by_phrase == PhraseIntent(transcript, 1)
         IN IF by_phrase # None THEN by_phrase
            ELSE KeywordIntent(transcript, 1)

\* most words of a transcript
MaxWords == 3

\* words of the transcripts: parts of phrases, keywords, and a plain word
Vocabulary ==
    {"what", "does", "tell", "me", "step", "by", "across", "files",
     "create", "issue", "fix", "this"}

IntentCalls ==
    [transcript : UNION {[1..n -> Vocabulary] : n \in 0..MaxWords},
     explicit_mode : {"auto", "debug", "voice"}]

IntentStart ==
    /\ RestInit
    /\ call \in IntentCalls
    /\ ret = NoRet

DetectIntent ==
    /\ ~ret.done
    /\ ret' = [done |-> TRUE,
               value |-> detect_intent(call.transcript, call.explicit_mode)]
    /\ UNCHANGED <<call, notFun>>

IntentSpec == IntentStart /\ [][DetectIntent]_vars

\* the intents INTENT_MAP assigns to the multi-word phrases in a transcript
PhraseIntentsIn(transcript) ==
    {INTENT_MAP[i][2] : i \in {j \in 1..Len(INTENT_MAP) :
        /\ Len(INTENT_MAP[j][1]) > 1
        /\ Contains(transcript, INTENT_MAP[j][1])}}

\* C32: a transcript that contains a multi-word phrase of the intent
\* keyword table is classified with the intent the table assigns to that
\* phrase, even when it also contains a single-word keyword of another
\* intent (no explicit mode given).
C32_PhraseWins ==
    ret.done /\ call.explicit_mode = "auto"
             /\ PhraseIntentsIn(call.transcript) # {} =>
        ret.value \in PhraseIntentsIn(call.transcript)

\* ------------------------------------------------------------------------
\* Context agent: get_symbol_at_cursor
\* ------------------------------------------------------------------------
\* last line of the modelled file
MaxCursor == 4
\* most symbols of the modelled file
MaxSymbols == 2

\* the line ranges [line, end_line] of definitions
Ranges == {r \in (1..MaxCursor) \X (1..MaxCursor) : r[1] <= r[2]}

\* The symbols list of a FileSymbols as the extractors build it: walk
\* appends a definition before it descends into its body, so the list is in
\* source order and a later definition lies after an earlier one or inside
\* it (a method inside its class).
SymbolLists ==
    {s \in UNION {[1..n -> Ranges] : n \in 0..MaxSymbols} :
        \A i, j \in 1..Len(s) :
            i < j => /\ s[i][1] < s[j][1]
                     /\ (s[i][2] < s[j][1] \/ s[j][2] <= s[i][2])}

\* first loop: the first symbol with line <= cursor_line <= end_line, 0 if
\* there is none
RECURSIVE FirstContaining(_, _, _)
FirstContaining(symbols, cursor_line, i) ==
    IF i > Len(symbols) THEN 0
    ELSE IF symbols[i][1] <= cursor_line /\ cursor_line <= symbols[i][2] THEN i
    ELSE FirstContaining(symbols, cursor_line, i + 1)

\* second loop: the symbol with the greatest line <= cursor_line, the first
\* of them on a tie; nearest = 0 stands for None
RECURSIVE NearestAbove(_, _, _, _)
NearestAbove(symbols, cursor_line, i, nearest) ==
    IF i > Len(symbols) THEN nearest
    ELSE NearestAbove(symbols, cursor_line, i + 1,
            IF /\ symbols[i][1] <= cursor_line
               /\ (nearest = 0 \/ symbols[i][1] > symbols[nearest][1])
            THEN i ELSE nearest)

\* get_symbol_at_cursor: the position in the symbols list of the Symbol
\* whose info is returned, 0 for None
get_symbol_at_cursor(c) ==
    IF ~c.indexed THEN 0
    ELSE LET first == FirstContaining(c.symbols, c.cursor_line, 1)
         IN IF first # 0 THEN first
            ELSE NearestAbove(c.symbols, c.cursor_line, 1, 0)

CursorCalls ==
    [indexed : BOOLEAN, symbols : SymbolLists, cursor_line : 1..MaxCursor]

CursorStart ==
    /\ RestInit
    /\ call \in CursorCalls
    /\ ret = NoRet

GetSymbolAtCursor ==
    /\ ~ret.done
    /\ ret' = [done |-> TRUE, value |-> get_symbol_at_cursor(call)]
    /\ UNCHANGED <<call, notFun>>

CursorSpec == CursorStart /\ [][GetSymbolAtCursor]_vars

\* positions of the symbols whose range contains the cursor line
ContainingCursor ==
    {i \in 1..Len(call.symbols) :
        call.symbols[i][1] <= call.cursor_line
            /\ call.cursor_line <= call.symbols[i][2]}

\* positions of the symbols starting at or above the cursor line
AboveCursor ==
    {i \in 1..Len(call.symbols) : call.symbols[i][1] <= call.cursor_line}

\* the position whose symbol starts last
Latest(positions) ==
    CHOOSE i \in positions :
        \A j \in positions : call.symbols[j][1] <= call.symbols[i][1]

\* C33: symbol_at_cursor is the innermost Symbol whose [line, end_line]
\* range contains the cursor line (the method when a class and one of its
\* methods both contain it); only when no Symbol contains the cursor is it
\* the nearest Symbol starting at or above the cursor.
C33_InnermostAtCursor ==
    ret.done /\ call.indexed =>
        IF ContainingCursor # {} THEN ret.value = Latest(ContainingCursor)
        ELSE IF AboveCursor # {} THEN ret.value = Latest(AboveCursor)
        ELSE ret.value = 0

\* ------------------------------------------------------------------------
\* MemoryService: the long-term memories
\* ------------------------------------------------------------------------
\* most memories held at once
MaxMemories == 2

\* contents of memories and queries, as character strings: "a" is in both
\* contents, "t" in one, "z" in none
MemoryContents == {<<"t", "a", "b", "s">>, <<"s", "p", "a", "c", "e", "s">>}
Queries == {<<"a">>, <<"t">>, <<"z">>}

\* importance 0.5 and 1.0, in tenths
Importances == {5, 10}

\* UserMemory(id, category, content, importance): created_at and
\* last_accessed default to now, access_count to 0 (the category is not
\* read by the calls modelled)
UserMemory(content, importance, now) ==
    [content |-> content, importance |-> importance, created_at |-> now,
     last_accessed |-> now, access_count |-> 0]

\* _save_memories: {memory_id: asdict(memory)} written to memories.json
_save_memories(mems) == mems

\* the ids of a dict in insertion order: ids are handed out in rising order
RECURSIVE IdsInOrder(_)
IdsInOrder(ids) ==
    IF ids = {} THEN <<>>
    ELSE LET least == CHOOSE i \in ids : \A j \in ids : i <= j
         IN <<least>> \o IdsInOrder(ids \ {least})

\* search_memories, the loop: every memory whose content holds the query
\* is counted and stamped
Touch(mems, query, now) ==
    [id \in DOMAIN mems |->
        IF Contains(mems[id].content, query)
        THEN [mems[id] EXCEPT !.access_count = @ + 1, !.last_accessed = now]
        ELSE mems[id]]

\* the sort key importance * (1 + access_count * 0.1), in hundredths
Relevance(memory) == memory.importance * (10 + memory.access_count)

\* results of the loop, in dict order, with their sort keys
RECURSIVE Matching(_, _, _)
Matching(mems, query, ids) ==
    IF ids = <<>> THEN <<>>
    ELSE (IF Contains(mems[Head(ids)].content, query)
          THEN <<[id |-> Head(ids), score |-> Relevance(mems[Head(ids)])]>>
          ELSE <<>>)
         \o Matching(mems, query, Tail(ids))

\* search_memories(query, limit): the memories after the call and the ids
\* of the memories returned
search_memories(mems, query, limit, now) ==
    LET touched == Touch(mems, query, now)
        results == SortByScore(Matching(touched, query, IdsInOrder(DOMAIN mems)),
                               <<>>)
    IN [memories |-> touched,
        returned |-> {r.id : r \in Range(Take(results, limit))}]

StoreCall(op, returned, before, at) ==
    [op |-> op, returned |-> returned, before |-> before, at |-> at]

\* add_memory(category, content, importance)
AddMemory ==
    \E content \in MemoryContents, importance \in Importances :
        /\ clock <= MaxCalls
        /\ Cardinality(DOMAIN memories) < MaxMemories
        /\ memories' = DictPut(memories, clock, UserMemory(content, importance, clock))
        /\ memfile' = _save_memories(memories')
        /\ clock' = clock + 1
        /\ lastStore' = StoreCall("add_memory", {}, memories, clock)
        /\ UNCHANGED <<conversations, active, disk, lastMem, notStore>>

\* search_memories(query, limit), as the /memories/search route calls it
SearchMemories ==
    \E query \in Queries, limit \in {1, 10} :
        \E r \in {search_memories(memories, query, limit, clock)} :
            /\ clock <= MaxCalls
            /\ memories # EmptyDict
            /\ memories' = r.memories
            /\ clock' = clock + 1
            /\ lastStore' = StoreCall("search_memories", r.returned, memories, clock)
            /\ UNCHANGED <<memfile, conversations, active, disk, lastMem, notStore>>

\* get_relevant_context(query): search_memories(query, limit=max_memories)
\* with the default max_memories = 5; the history part reads only
GetRelevantContext ==
    \E query \in Queries :
        \E r \in {search_memories(memories, query, 5, clock)} :
            /\ clock <= MaxCalls
            /\ memories # EmptyDict
            /\ memories' = r.memories
            /\ clock' = clock + 1
            /\ lastStore' = StoreCall("get_relevant_context", r.returned, memories, clock)
            /\ UNCHANGED <<memfile, conversations, active, disk, lastMem, notStore>>

\* delete_memory(memory_id) of a memory held
DeleteMemory ==
    \E memory_id \in DOMAIN memories :
        /\ memories' = DictDel(memories, memory_id)
        /\ memfile' = _save_memories(memories')
        /\ lastStore' = StoreCall("delete_memory", {}, memories, clock)
        /\ UNCHANGED <<clock, conversations, active, disk, lastMem, notStore>>

\* the process restarts: MemoryService() loads memories.json
ReloadMemories ==
    /\ memories # memfile
    /\ memories' = memfile
    /\ lastStore' = StoreCall("restart", {}, memories, clock)
    /\ UNCHANGED <<memfile, clock, conversations, active, disk, lastMem, notStore>>

StoreNext ==
    AddMemory \/ SearchMemories \/ GetRelevantContext \/ DeleteMemory
        \/ ReloadMemories

StoreSpec == Init /\ [][StoreNext]_vars

\* C34: a memory retrieval increments access_count by exactly one and
\* updates last_accessed for each memory it returns as a hit, and leaves
\* the counters of every memory it does not return unchanged.
C34_OnlyReturnedAreCounted ==
    lastStore.op \in {"search_memories", "get_relevant_context"} =>
        \A id \in DOMAIN lastStore.before :
            IF id \in lastStore.returned
            THEN /\ memories[id].access_count
                        = lastStore.before[id].access_count + 1
                 /\ memories[id].last_accessed = lastStore.at
            ELSE /\ memories[id].access_count = lastStore.before[id].access_count
                 /\ memories[id].last_accessed = lastStore.before[id].last_accessed

\* C38: after any memory-store operation returns, the memories snapshot on
\* disk equals the in-memory memories, access_count and last_accessed
\* included, so reloading the store never loses a counter update made by a
\* retrieval.
C38_SnapshotEqualsMemories == memfile = _save_memories(memories)

\* ------------------------------------------------------------------------
\* Call graph queries on files that hold methods
\* ------------------------------------------------------------------------
\* definitions of a file with a class C: f as a function or as a method of
\* C, either of which may call g, and the function g
MethodDefs ==
    [name : {"f"}, kind : {"function"}, parent : {None}, calls : SUBSET {"g"}]
    \cup [name : {"f"}, kind : {"method"}, parent : {"C"}, calls : SUBSET {"g"}]
    \cup [name : {"g"}, kind : {"function"}, parent : {None}, calls : {{}}]

MethodContents ==
    {c \in [1..MaxLine -> MethodDefs \cup {NoDef}] :
        Cardinality({l \in 1..MaxLine : c[l] # NoDef}) <= MaxDefs}

\* get_callers(symbol_name): the Symbols find_symbol gives for the names in
\* reverse_call_graph[symbol_name]
get_callers(idx, symbol_name) ==
    UNION {Range(find_symbol(idx, caller_name)) :
            caller_name \in DictGet(idx.reverse_call_graph, symbol_name, {})}

\* index_file(path) on a file of the project; what an earlier get_callers
\* returned is forgotten
IndexMethodFile ==
    \E path \in CodePaths, content \in MethodContents :
        LET new == index_file(index, path, content)
        IN /\ WithinCap(new)
           /\ index' = new
           /\ lastOp' = Op("index_file", path, None, {})
           /\ ret' = NoRet
           /\ UNCHANGED <<walk, call, watchVars, asmVars, concVars, embVars,
                          memVars, reqVars, storeVars, pullVars, debVars>>

\* get_callers(symbol_name)
GetCallers ==
    \E symbol_name \in Names :
        /\ ~ret.done
        /\ ret' = [done |-> TRUE,
                   value |-> [symbol_name |-> symbol_name,
                              callers |-> get_callers(index, symbol_name)]]
        /\ UNCHANGED <<call, notFun>>

CallersNext == IndexMethodFile \/ GetCallers

CallersSpec == Init /\ [][CallersNext]_vars

\* C35: get_callers(name) returns the Symbol of every function and every
\* method whose body calls name: a calling method defined inside a class is
\* reported just like a calling module-level function.  Checked for the
\* callers whose call the call graph has recorded.
C35_CallersIncludeMethods ==
    ret.done =>
        \A sym \in FileRows(index) :
            /\ ret.value.symbol_name \in sym.calls
            /\ full_name(sym) \in DictGet(index.reverse_call_graph,
                                          ret.value.symbol_name, {})
            => sym \in ret.value.callers

\* ------------------------------------------------------------------------
\* The call graph of a project and the order of its files
\* ------------------------------------------------------------------------
\* the orders in which os.walk can hand the project's files to index_project
WalkOrders == {<<"a.py", "b.py">>, <<"b.py", "a.py">>}

\* index_project's loop: index_file on each file of the walk, in its order
RECURSIVE IndexInOrder(_, _, _)
IndexInOrder(idx, order, files) ==
    IF order = <<>> THEN idx
    ELSE IndexInOrder(index_file(idx, Head(order), files[Head(order)]),
                      Tail(order), files)

\* SymbolIndexer.index_project: a fresh SymbolIndex, then the loop
index_project(order, files) == IndexInOrder(SymbolIndex, order, files)

\* the projects: a content (or an unreadable file) at each path
ProjectFiles == [CodePaths -> MethodContents \cup {Unreadable}]

OrderStart ==
    /\ RestInit
    /\ call \in ProjectFiles
    /\ ret = NoRet

\* index_project on the same files under each walk order
IndexProject ==
    /\ ~ret.done
    /\ ret' = [done |-> TRUE,
               value |-> [order \in WalkOrders |-> index_project(order, call)]]
    /\ UNCHANGED <<call, notFun>>

OrderSpec == OrderStart /\ [][IndexProject]_vars

\* C36: indexing the same set of files in any order yields the same
\* call_graph and reverse_call_graph: a call to a function defined in a file
\* indexed later is recorded just like a call to one indexed earlier.
C36_OrderIndependentCallGraph ==
    ret.done =>
        \A o1, o2 \in WalkOrders :
            /\ ret.value[o1].call_graph = ret.value[o2].call_graph
            /\ ret.value[o1].reverse_call_graph = ret.value[o2].reverse_call_graph

\* ------------------------------------------------------------------------
\* Indexing the same file twice in a row
\* ------------------------------------------------------------------------
\* index_file(path) on a file of the project; the path and the content it
\* read are remembered for the next call
IndexOnce ==
    \E path \in CodePaths, content \in Contents :
        LET new == index_file(index, path, content)
        IN /\ WithinCap(new)
           /\ index' = new
           /\ lastOp' = Op("index_file", path, None, {})
           /\ call' = [path |-> path, content |-> content]
           /\ ret' = NoRet
           /\ UNCHANGED <<walk, watchVars, asmVars, concVars, embVars,
                          memVars, reqVars, storeVars, pullVars, debVars>>

\* index_file(path) again, right after the first call and with the file's
\* content unchanged; ret keeps the index as the first call left it
IndexAgain ==
    /\ ~ret.done
    /\ lastOp.op = "index_file"
    /\ LET new == index_file(index, call.path, call.content)
       IN /\ WithinCap(new)
          /\ index' = new
          /\ lastOp' = Op("index_file", call.path, None, {})
          /\ ret' = [done |-> TRUE, value |-> index]
          /\ UNCHANGED <<walk, call, watchVars, asmVars, concVars, embVars,
                         memVars, reqVars, storeVars, pullVars, debVars>>

ReindexNext == IndexOnce \/ IndexAgain

ReindexSpec == Init /\ [][ReindexNext]_vars

\* the (key, Symbol) entries of by_name or by_kind
ListEntries(d) == UNION {{<<k, sym>> : sym \in Range(d[k])} : k \in DOMAIN d}

\* C39: re-indexing a file with unchanged content is idempotent: by_file,
\* by_name, by_kind, call_graph and reverse_call_graph hold the same sets of
\* entries after a second consecutive index_file(p) as after the first.
C39_ReindexIdempotent ==
    ret.done =>
        /\ index.by_file = ret.value.by_file
        /\ ListEntries(index.by_name) = ListEntries(ret.value.by_name)
        /\ ListEntries(index.by_kind) = ListEntries(ret.value.by_kind)
        /\ ForwardEdges(index) = ForwardEdges(ret.value)
        /\ ReverseEdges(index) = ReverseEdges(ret.value)

\* ------------------------------------------------------------------------
\* IncrementalIndexer (pull mode)
\* ------------------------------------------------------------------------
\* file_mtimes is IncrementalIndexer._file_mtimes, mtimes the modification
\* times on disk.  unindexed is the set of files whose latest index_file
\* attempt raised or returned nothing; pull records the latest
\* index_changed_files call: the list check_for_changes gave it and the
\* files that were unindexed when it was called.
MaxMtime == 2

\* a write to a file of the project advances its modification time
TouchFile ==
    \E p \in CodePaths :
        /\ mtimes[p] < MaxMtime
        /\ mtimes' = [mtimes EXCEPT ![p] = @ + 1]
        /\ UNCHANGED <<file_mtimes, unindexed, pull, notPull>>

\* check_for_changes: current_mtime > self._file_mtimes.get(file_path, 0)
IsChanged(cache, p) == mtimes[p] > DictGet(cache, p, 0)

\* check_for_changes: the changed files in walk order, and the cache with the
\* current mtime of each of them stored
check_for_changes(cache) ==
    [changed_files |-> SelectSeq(WalkOrder, LAMBDA p : IsChanged(cache, p)),
     file_mtimes |-> [p \in (DOMAIN cache) \cup {q \in CodePaths : IsChanged(cache, q)}
                        |-> IF IsChanged(cache, p) THEN mtimes[p] ELSE cache[p]]]

\* what one index_file attempt meets: the content open() gives (Unreadable:
\* open fails and index_file returns None), and whether parsing it raises
Attempts == [content : Contents \cup {Unreadable}, raises : BOOLEAN]

\* the try block of index_changed_files for one file: an exception leaves
\* the index as it was
Attempt(idx, p, a) == IF a.raises THEN idx ELSE index_file(idx, p, a.content)

\* `if result: count += 1`
Indexed(p, a) == ~a.raises /\ index_file_ok(p, a.content)

\* the loop of index_changed_files over changed_files
RECURSIVE IndexChanged(_, _, _)
IndexChanged(idx, changed_files, met) ==
    IF changed_files = <<>> THEN idx
    ELSE IndexChanged(Attempt(idx, Head(changed_files), met[Head(changed_files)]),
                      Tail(changed_files), met)

\* IncrementalIndexer.index_changed_files
IndexChangedFiles ==
    \E chk \in {check_for_changes(file_mtimes)} :
    \E met \in [Range(chk.changed_files) -> Attempts] :
        LET new == IndexChanged(index, chk.changed_files, met)
            ok == {p \in Range(chk.changed_files) : Indexed(p, met[p])}
        IN /\ WithinCap(new)
           /\ file_mtimes' = chk.file_mtimes
           /\ index' = new
           /\ lastOp' = Op("index_changed_files", None, None, {})
           /\ unindexed' = (unindexed \ ok) \cup (Range(chk.changed_files) \ ok)
           /\ pull' = [called |-> TRUE,
                       changed_files |-> Range(chk.changed_files),
                       owed |-> unindexed]
           /\ UNCHANGED <<walk, mtimes, watchVars, asmVars, concVars, embVars,
                          memVars, reqVars, funVars, storeVars, debVars>>

PullNext == TouchFile \/ IndexChangedFiles

PullSpec == Init /\ [][PullNext]_vars

\* C40: a file whose index_file attempt raised or returned nothing during
\* index_changed_files is reported as changed again by the next call, until
\* it has been indexed successfully.
C40_FailuresAreRetried == pull.called => pull.owed \subseteq pull.changed_files

\* ------------------------------------------------------------------------
\* The debouncer, with the events each queued change stands for
\* ------------------------------------------------------------------------
\* The accepted events are numbered 1..nEvents.  A queued change carries, in
\* the field events, the events it stands for, each as <<number, path>>: its
\* own and those of the pending change it replaced.

\* the events the pending change of a path stands for
EventsOf(pend, path) ==
    IF PendingPos(pend, path) = 0 THEN {} ELSE pend[PendingPos(pend, path)].events

\* a FileChange and the events it stands for once it is queued
Queued(change, events) ==
    [path |-> change.path, event_type |-> change.event_type,
     old_path |-> change.old_path, events |-> events]

\* the events of these runs: _queue_change reads nothing of a change but its
\* path, so modified events on either path stand for all
QueuedChanges == {c \in WatchChanges : c.event_type = "modified"}

\* _queue_change under the lock, as OnEvent: merge the change, cancel the
\* waiting timer, start a new one
QueueChange ==
    \E change \in QueuedChanges :
        /\ nEvents < MaxEvents
        /\ pending' = MergePending(pending,
                        Queued(change, EventsOf(pending, change.path)
                                            \cup {<<nEvents + 1, change.path>>}))
        /\ timer' = StartTimer
        /\ age' = [age EXCEPT ![change.path] = 0]
        /\ nEvents' = nEvents + 1
        /\ burst' = StaysBurst(change)
        /\ UNCHANGED <<flushers, handled, early, idxVars, notWatch>>

\* _flush_changes outside the lock, as FlushDispatch: self.on_change(change)
\* for the next change of the snapshot
OnChange ==
    \E i \in 1..Len(flushers), content \in WatchContents :
        /\ flushers[i].pc = "dispatch"
        /\ flushers[i].changes # <<>>
        /\ LET change == Head(flushers[i].changes)
               new == _handle_change(index, change, content)
           IN /\ change.event_type = "deleted" => content = Unreadable
              /\ WithinCap(new)
              /\ index' = new
              /\ lastOp' = HandledOp(index, change, index_file_ok(change.path, content))
              /\ handled' = [handled EXCEPT ![change.path] = IF @ >= 2 THEN 2 ELSE @ + 1]
              /\ early' = (age[change.path] < DebounceDelayMs)
              /\ flushers' = [flushers EXCEPT ![i].changes = Tail(@)]
              /\ emb' = _handle_change_embeddings(emb, change, content, embedder)
              /\ Cardinality(emb') <= MaxEmbedded
              /\ dispatched' = Append(dispatched, change)
        /\ UNCHANGED <<walk, pending, timer, age, nEvents, burst, asmVars, concVars,
                       embedder, memVars, reqVars, funVars, storeVars, pullVars>>

DebounceNext ==
    QueueChange \/ Tick \/ TimerExpire \/ FlushSnapshot \/ OnChange \/ FlushDone

DebounceSpec == Init /\ [][DebounceNext]_vars

\* the handler invocations that cover event e
Covering(e) ==
    {i \in 1..Len(dispatched) : \E ev \in dispatched[i].events : ev[1] = e}

\* the numbers of the events a change stands for
Numbers(change) == {ev[1] : ev \in change.events}

\* the changes still waiting: pending, or in the snapshot of a timer thread
Waiting ==
    Range(pending) \cup UNION {Range(flushers[i].changes) : i \in 1..Len(flushers)}

\* C37: no queued change is lost or handled twice by the debouncer: every
\* event accepted by _queue_change is covered by exactly one later handler
\* invocation for its path, under every interleaving of event callbacks,
\* timer cancellations and timer firings.  In every state an accepted event
\* is covered by at most one invocation, and by none only while a change
\* that stands for it waits; an invocation covers events of its own path only; a pending change has a timer waiting or a timer
\* thread about to take it; when no timer waits and no timer thread runs,
\* every accepted event is covered by exactly one invocation.
C37_EachEventHandledOnce ==
    /\ \A e \in 1..nEvents :
          /\ Cardinality(Covering(e)) <= 1
          /\ Covering(e) = {} => \E change \in Waiting : e \in Numbers(change)
          /\ Covering(e) # {} => \A change \in Waiting : e \notin Numbers(change)
          /\ Quiet => Cardinality(Covering(e)) = 1
    /\ \A i \in 1..Len(dispatched) :
          \A ev \in dispatched[i].events : ev[2] = dispatched[i].path
    /\ pending # <<>> =>
          timer >= 0 \/ \E i \in 1..Len(flushers) : flushers[i].pc = "run"

\* C37 witness: three events were accepted, one invocation covered two of
\* them, another covered the third, and the timers are through
C37_Witness ==
    /\ Quiet
    /\ nEvents >= 3
    /\ Len(dispatched) >= 2
    /\ \E i \in 1..Len(dispatched) : Cardinality(dispatched[i].events) >= 2

Next == IndexFile \/ IndexProjectStart \/ IndexProjectFile \/ HandleChange

Spec == Init /\ [][Next]_vars

====
